---- MODULE Spec2Model ----
(***************************************************************************)
(* A model of the receiver side of bark (ogmkp/bark): the rate controller  *)
(* of the slew driver (src/receive/slew.rs), the per-session packet queue  *)
(* and its seek loop (src/receive/session.rs) and the output buffer        *)
(* shared by the session thread and the audio callback                     *)
(* (src/receive/buffer.rs).                                                *)
(*                                                                         *)
(* Each component has its own specification (SpecRate, SpecSession,        *)
(* SpecBuffer); the variables of the other components stay at their        *)
(* initial values.                                                         *)
(***************************************************************************)
EXTENDS Integers, Sequences, FiniteSets, TLC

VARIABLES
    \* RateAdjust (slew.rs)
    slew,           \* RateAdjust.slew
    rate,           \* the rate Slew::write chose in the last call
    calls,          \* history: the last two RateAdjust::calculate calls
    rate_panicked,  \* the calling thread panicked (arithmetic overflow)
    \* Session (session.rs) and the receive loop (mod.rs)
    started,        \* a Session exists (Session::start has run)
    sid,            \* Session.sid
    start_seq,      \* Session.start_seq
    queue,          \* Shared.queue
    sync,           \* Shared.sync
    clock_delta,    \* Shared.timing.clock_delta (an Aggregate)
    stream_status,  \* Shared.stats.stream_status
    data,           \* the output slice of the last run_session iteration
    last,           \* history: the last operation and what it saw
    panicked,       \* the calling thread panicked (assert / unwrap)
    \* Output buffer (buffer.rs)
    buffer,         \* Locked.buffer
    spans,          \* Locked.spans
    offset,         \* Locked.offset
    out,            \* the samples slice of the last StreamReader::read
    rd,             \* history: the last operation on the buffer; for a read, what it saw
    writer,         \* StreamWriter::write in progress: where it is, what is left
    buf_panicked,   \* a thread panicked while it held the lock of the buffer
    \* the latency window of the clock estimator (src/receive/session.rs, Timing)
    latency,        \* Shared.timing.latency (an Aggregate)
    observed,       \* history: every value observed into latency, oldest first
    \* the network threads (src/receive/mod.rs and src/source/mod.rs, run)
    handled,        \* history: the last datagram a network thread handled, what it sent
    running,        \* running[s]: the source with session ID s is in its receive loop
    \* a block of receiver statistics (src/stats/receiver.rs, ReceiverStats)
    stats,          \* the block: flags, stream_status and the four values
    since,          \* history: since[f] is Some(v) when field f was last set to v
                    \* after the creation and the last clear, None otherwise
    stats_op,       \* history: the last call on the block
    \* the receiver's threads (src/receive/mod.rs run, src/receive/session.rs run_session)
    quit,           \* Shared.quit
    session_thread, \* where the session thread is: "top", "seek" or "exited"
    net_thread,     \* where the network thread is: "recv_from" or "exited"
    \* the encoder of the source (src/source/encode.rs, PcmFloat32)
    enc_packet,     \* PcmFloat32.packet: None or the packet being filled
    enc_seq,        \* PcmFloat32.seq
    broadcast,      \* every audio packet the encoder broadcast, oldest first
    input,          \* history: every frame given to Encoder::write, oldest first
    enc_panicked,   \* Encoder::write panicked
    \* the slew driver (src/receive/slew.rs, Slew::write)
    sw              \* the call of Slew::write: where it is, what it has left, what
                    \* it wrote to the output, and how it returned

rate_vars == <<slew, rate, calls, rate_panicked>>
session_vars == <<started, sid, start_seq, queue, sync, clock_delta,
                  stream_status, data, last, panicked>>
buffer_vars == <<buffer, spans, offset, out, rd, writer, buf_panicked>>
timing_vars == <<latency, observed>>
\* the variables the rate controller, the session and the output buffer leave alone
net_vars == <<handled, running>>
stats_vars == <<stats, since, stats_op>>
cancel_vars == <<quit, session_thread, net_thread>>
encode_vars == <<enc_packet, enc_seq, broadcast, input, enc_panicked>>
slew_vars == <<sw>>
more_vars == <<stats_vars, cancel_vars, encode_vars, slew_vars>>
aux_vars == <<timing_vars, net_vars, more_vars>>
vars == <<rate_vars, session_vars, buffer_vars, aux_vars>>

\* Option<T>: None is the empty sequence, Some(x) a sequence of one element
None == <<>>
Some(x) == <<x>>
Unwrap(o) == o[1]

Min(a, b) == IF a < b THEN a ELSE b
Max(a, b) == IF a > b THEN a ELSE b

(***************************************************************************)
(* Protocol constants.  crate::protocol and crate::time are not among the  *)
(* source files; their values are taken from the specification (R = 48000, *)
(* C = 2, F frames per packet).                                            *)
(***************************************************************************)
SAMPLE_RATE == 48000
CHANNELS == 2
\* frames per packet (F); kept small so that the queue model stays finite
FRAMES_PER_PACKET == 3

\* SampleDuration::from_std_duration_lossy, on a duration given in microseconds
from_std_duration_lossy(us) == (us * SAMPLE_RATE) \div 1000000
\* SampleDuration::from_buffer_offset / as_buffer_offset
from_buffer_offset(len) == len \div CHANNELS
as_buffer_offset(frames) == frames * CHANNELS

(***************************************************************************)
(* 64-bit integers.  TLC's integers are 32 bits wide, so an i64 is a       *)
(* record [neg, mag] whose magnitude is a little-endian sequence of bytes. *)
(***************************************************************************)
RECURSIVE Bytes(_, _)
Bytes(n, len) == IF len = 0 THEN <<>> ELSE <<n % 256>> \o Bytes(n \div 256, len - 1)

Wide(n) == [neg |-> n < 0, mag |-> Bytes(IF n < 0 THEN -n ELSE n, 8)]

\* the magnitude fits three bytes
Small(mag) == \A i \in 4..Len(mag) : mag[i] = 0
ToInt(mag) == mag[1] + 256 * mag[2] + 65536 * mag[3]
IsZero(mag) == \A i \in 1..Len(mag) : mag[i] = 0

\* TimestampDelta::abs compared with a SampleDuration of k frames
AbsLt(w, k) == Small(w.mag) /\ ToInt(w.mag) < k

\* m * k + c, for a multiplier k < 2^24; three bytes longer than m
RECURSIVE MulMag(_, _, _)
MulMag(m, k, c) ==
    IF m = <<>> THEN Bytes(c, 3)
    ELSE LET t == Head(m) * k + c
         IN  <<t % 256>> \o MulMag(Tail(m), k, t \div 256)

\* m \div d by long division from the most significant byte, d < 2^23
RECURSIVE DivMag(_, _, _)
DivMag(m, d, rem) ==
    IF m = <<>> THEN <<>>
    ELSE LET i == Len(m)
             cur == rem * 256 + m[i]
         IN  DivMag(SubSeq(m, 1, i - 1), d, cur % d) \o <<cur \div d>>

\* two's complement negation of an unsigned byte sequence (mod 2^(8 Len))
RECURSIVE NegBytes(_, _)
NegBytes(m, c) ==
    IF m = <<>> THEN <<>>
    ELSE LET t == (255 - Head(m)) + c
         IN  <<t % 256>> \o NegBytes(Tail(m), t \div 256)

\* the i64 that a mathematical value [neg, mag] wraps to (mod 2^64)
Wrap64(w) ==
    LET low == SubSeq(w.mag, 1, 8)
        u == IF w.neg /\ ~IsZero(low) THEN NegBytes(low, 1) ELSE low
    IN  IF u[8] >= 128 THEN [neg |-> TRUE, mag |-> NegBytes(u, 1)]
        ELSE [neg |-> FALSE, mag |-> u]

\* the mathematical value does not fit an i64
Overflows64(w) ==
    LET v == Wrap64(w)
    IN  ~(v.neg = w.neg /\ v.mag \o <<0, 0, 0>> = w.mag)

(***************************************************************************)
(* The rate controller: RateAdjust in src/receive/slew.rs.                 *)
(***************************************************************************)
MIN_PLAYBACK_RATE_PERCENT == 98
MAX_PLAYBACK_RATE_PERCENT == 200

\* Duration::from_micros(2000), Duration::from_micros(100), Duration::from_millis(500)
START_SLEW_US == 2000
STOP_SLEW_US == 100
SLEW_TARGET_US == 500000

start_slew_threshold == from_std_duration_lossy(START_SLEW_US)
stop_slew_threshold == from_std_duration_lossy(STOP_SLEW_US)

min_rate == (SAMPLE_RATE * MIN_PLAYBACK_RATE_PERCENT) \div 100
max_rate == (SAMPLE_RATE * MAX_PLAYBACK_RATE_PERCENT) \div 100

\* max(min_rate, min(max_rate, base_sample_rate + q)) for a 64-bit q
ClampRate(q) ==
    IF Small(q.mag)
    THEN LET r == IF q.neg THEN SAMPLE_RATE - ToInt(q.mag) ELSE SAMPLE_RATE + ToInt(q.mag)
         IN  Min(max_rate, Max(min_rate, r))
    ELSE IF q.neg THEN min_rate ELSE max_rate

\* offset.as_frames() * 1_000_000 as a mathematical value, eleven bytes
RateProduct(off) == [neg |-> off.neg, mag |-> MulMag(off.mag, 1000000, 0)]

\* i64 division truncates towards zero: divide the magnitude, keep the sign
DivTrunc(w, d) == [neg |-> w.neg, mag |-> DivMag(w.mag, d, 0)]

\* A plausible slip: the hysteresis test forgets the flag, so the controller
\* starts slewing at the stop threshold already.
calculate_no_hysteresis(flag, off, checks) ==
    IF AbsLt(off, stop_slew_threshold)
    THEN [slew |-> FALSE, result |-> None, panic |-> FALSE]
    ELSE [slew |-> TRUE, panic |-> FALSE,
          result |-> Some(ClampRate(DivTrunc(Wrap64(RateProduct(off)), SLEW_TARGET_US)))]

\* RateAdjust::calculate(&mut self, offset).  flag is self.slew before the
\* call; checks says whether the build traps arithmetic overflow (it panics)
\* or wraps.  The result holds self.slew after the call and the Option returned.
calculate(flag, off, checks) ==
    IF AbsLt(off, stop_slew_threshold)
    THEN [slew |-> FALSE, result |-> None, panic |-> FALSE]
    ELSE IF AbsLt(off, start_slew_threshold) /\ ~flag
    THEN [slew |-> flag, result |-> None, panic |-> FALSE]
    ELSE IF checks /\ Overflows64(RateProduct(off))
    THEN [slew |-> flag, result |-> None, panic |-> TRUE]
    ELSE [slew |-> TRUE, panic |-> FALSE,
          result |-> Some(ClampRate(DivTrunc(Wrap64(RateProduct(off)), SLEW_TARGET_US)))]


\* the offsets the output buffer publishes, in frames: around both thresholds,
\* around both clamps, and at the ends of the 64-bit range
SmallOffsets == {2, 4, 24, 95, 96, 144, 481, 24001}
\* 9223372036855 = ceil(2^63 / 10^6), 9223372036854 the offset just below it
Overflowing == <<247, 90, 208, 123, 99, 8, 0, 0>>
NotOverflowing == <<246, 90, 208, 123, 99, 8, 0, 0>>
I64Max == <<255, 255, 255, 255, 255, 255, 255, 127>>
WideOffsets == {[neg |-> FALSE, mag |-> Overflowing],
                [neg |-> FALSE, mag |-> NotOverflowing],
                [neg |-> TRUE, mag |-> I64Max]}
Offsets == {Wide(n) : n \in SmallOffsets} \cup {Wide(-n) : n \in SmallOffsets}
           \cup WideOffsets

RateInit ==
    /\ slew = FALSE
    /\ rate = SAMPLE_RATE
    /\ calls = <<>>
    /\ rate_panicked = FALSE

\* Slew::write, its choice of the playback rate (slew.rs 42-45):
\* self.output.offset().and_then(|o| self.rate.calculate(o)).unwrap_or(SAMPLE_RATE)
ChooseRate(off, checks) ==
    /\ ~rate_panicked
    /\ LET c == calculate(slew, off, checks)
       IN  /\ slew' = c.slew
           /\ rate_panicked' = c.panic
           /\ rate' = IF c.panic THEN rate
                      ELSE IF c.result = None THEN SAMPLE_RATE ELSE Unwrap(c.result)
           /\ calls' = LET h == Append(calls, [offset |-> off, before |-> slew,
                                                slew |-> c.slew, result |-> c.result,
                                                panic |-> c.panic])
                        IN  IF Len(h) > 2 THEN Tail(h) ELSE h

SlewRate(off, checks) ==
    /\ ChooseRate(off, checks)
    /\ UNCHANGED <<session_vars, buffer_vars, aux_vars>>

\* the output buffer has published no offset yet: calculate is not called
SlewRateNoOffset ==
    /\ ~rate_panicked
    /\ rate # SAMPLE_RATE
    /\ rate' = SAMPLE_RATE
    /\ UNCHANGED <<slew, calls, rate_panicked, session_vars, buffer_vars, aux_vars>>

(***************************************************************************)
(* The slew driver: the loop of Slew::write in src/receive/slew.rs.  The   *)
(* resampler (crate::resample) reports for each call how much of the input *)
(* it read and how much output it wrote, or an error.                      *)
(***************************************************************************)
\* at most this many iterations of the loop write to the output in a call
MaxChunks == 3

\* no call of Slew::write yet
SlewIdle == [pc |-> "idle", pts0 |-> 0, frames0 |-> 0, pts |-> 0, audio |-> 0,
             chunks |-> <<>>, iterations |-> 0]

SlewInit == sw = SlewIdle

\* A plausible slip: PTS and input advance by what the resampler wrote.
advance_by_output(process) == process.output_written

\* "let duration = process.input_read": what PTS and input advance by
advance(process) == process.input_read

\* Slew::write(pts, audio) is called with n frames of audio: the playback
\* rate is chosen from the offset of the output, then the loop is entered
\* (it is left at once for an empty buffer)
slew_write(pts, n, checks) ==
    /\ sw.pc # "loop"
    /\ IF offset = None
       THEN /\ ~rate_panicked
            /\ rate' = SAMPLE_RATE
            /\ UNCHANGED <<slew, calls, rate_panicked>>
       ELSE ChooseRate(Wide(Unwrap(offset)), checks)
    /\ sw' = [pc |-> IF n = 0 THEN "ok" ELSE "loop", pts0 |-> pts, frames0 |-> n,
              pts |-> pts, audio |-> n, chunks |-> <<>>, iterations |-> 0]
    /\ UNCHANGED <<session_vars, buffer_vars, timing_vars, net_vars, stats_vars,
                   cancel_vars, encode_vars>>

\* one iteration of the loop: the resampler read input_read frames of the
\* input and wrote output_written frames, which go to the output for the
\* current pts; pts and the input advance; the loop ends on an empty input
slew_iteration(input_read, output_written) ==
    /\ sw.pc = "loop" /\ ~rate_panicked
    /\ Len(sw.chunks) < MaxChunks
    /\ input_read <= sw.audio
    /\ LET process == [input_read |-> input_read, output_written |-> output_written]
           duration == advance(process)
       IN  sw' = [sw EXCEPT !.chunks = Append(@, [pts |-> sw.pts,
                                                  frames |-> process.output_written,
                                                  read |-> process.input_read]),
                            !.iterations = @ + 1,
                            !.pts = @ + duration,
                            !.audio = IF duration > @ THEN 0 ELSE @ - duration,
                            !.pc = IF duration >= sw.audio THEN "ok" ELSE "loop"]
    /\ UNCHANGED <<rate_vars, session_vars, buffer_vars, timing_vars, net_vars,
                   stats_vars, cancel_vars, encode_vars>>

\* process_interleaved returns an error: "?" returns it from write
slew_resample_error ==
    /\ sw.pc = "loop" /\ ~rate_panicked
    /\ sw' = [sw EXCEPT !.pc = "err", !.iterations = @ + 1]
    /\ UNCHANGED <<rate_vars, session_vars, buffer_vars, timing_vars, net_vars,
                   stats_vars, cancel_vars, encode_vars>>

(***************************************************************************)
(* The session: Session, Shared, Timing and Aggregate in                   *)
(* src/receive/session.rs, and the audio arm of the receive loop in        *)
(* src/receive/mod.rs.                                                     *)
(***************************************************************************)
\* [T; 64] in Aggregate
AGG_LEN == 64

\* StreamStatus::into_u8; a zeroed ReceiverStats holds 0
STATUS_SEEK == 1
STATUS_SYNC == 2
STATUS_SLEW == 3
STATUS_MISS == 4

\* an f32 the session wrote as 0f32, one it did not write at all, and the
\* i-th sample (from 1) of the audio of packet seq
ZERO == 0
STALE == -1
AudioSample(seq, i) == seq * 100 + i

\* the sequence numbers packets carry are 1..MaxSeq
MaxSeq == 4
\* at most this many clock offsets are observed in a behaviour
MaxObserve == 1
\* ReceiveOpt::max_seq_gap, a command-line option (its default is 12)
max_seq_gap == 2

\* the session IDs of the streams on the network
Sids == {1, 2}
\* the clock offsets the time exchange observes, in microseconds (1 frame)
DeltaMicros == {21}
\* the PTS at which the output asks for audio, in frames (before the first
\* packet, inside it, and one packet after its adjusted PTS), and the frames
\* it asks for
PtsNow == {1, FRAMES_PER_PACKET, 2 * FRAMES_PER_PACKET - 1}
FrameCounts == {1, 4}

\* The source stamps consecutive packets one packet duration apart: the PTS
\* on the wire of packet seq, in microseconds rounded up.
PacketPts(seq) == (seq * FRAMES_PER_PACKET * 1000000 + SAMPLE_RATE - 1) \div SAMPLE_RATE

Packets == {[sid |-> i, seq |-> n, pts |-> PacketPts(n)] : i \in Sids, n \in 1..MaxSeq}

\* Timestamp::from_micros_lossy and TimestampDelta::from_clock_delta_lossy
from_micros_lossy(us) == (us * SAMPLE_RATE) \div 1000000
from_clock_delta_lossy(us) ==
    IF us < 0 THEN -(((-us) * SAMPLE_RATE) \div 1000000)
    ELSE (us * SAMPLE_RATE) \div 1000000
\* Timestamp::adjust: the median offset is subtracted
adjust(pts, delta) == pts - delta

\* insertion into an ascending sequence, and slice::sort
RECURSIVE Insert(_, _)
Insert(x, sq) ==
    IF sq = <<>> THEN <<x>>
    ELSE IF x <= Head(sq) THEN <<x>> \o sq
    ELSE <<Head(sq)>> \o Insert(x, Tail(sq))
RECURSIVE Sort(_)
Sort(sq) == IF sq = <<>> THEN <<>> ELSE Insert(Head(sq), Sort(Tail(sq)))

\* Aggregate::default
AggregateDefault == [samples |-> [i \in 1..AGG_LEN |-> 0], count |-> 0, index |-> 0]

\* Aggregate::observe
observe(agg, value) ==
    [samples |-> [agg.samples EXCEPT ![agg.index + 1] = value],
     count |-> IF agg.count < AGG_LEN THEN agg.count + 1 ELSE agg.count,
     index |-> (agg.index + 1) % AGG_LEN]

\* A plausible slip: the lower middle element, index (count - 1) / 2.
median_lower_middle(agg) ==
    LET sorted == Sort(SubSeq(agg.samples, 1, agg.count))
    IN  IF agg.count = 0 THEN None ELSE Some(sorted[(agg.count - 1) \div 2 + 1])

\* Aggregate::median
median(agg) ==
    LET sorted == Sort(SubSeq(agg.samples, 1, agg.count))
    IN  IF agg.count \div 2 < Len(sorted) THEN Some(sorted[agg.count \div 2 + 1]) ELSE None

\* A plausible slip: the PTS is stored as the packet carries it.
adjust_pts_unadjusted(agg, pts) ==
    IF median(agg) = None THEN None ELSE Some(pts)

\* Timing::adjust_pts
adjust_pts(agg, pts) ==
    IF median(agg) = None THEN None
    ELSE Some(adjust(pts, from_clock_delta_lossy(Unwrap(median(agg)))))

\* a slot allocated for a packet that has not arrived
Hole(seq) == [seq |-> seq, pts |-> None, consumed |-> 0, audio |-> None]

RECURSIVE Holes(_, _)
Holes(from, to) == IF from > to THEN <<>> ELSE <<Hole(from)>> \o Holes(from + 1, to)

\* A plausible slip: the range starts at back.seq, so the back slot is
\* allocated twice.
ExtendQueue_from_back(q, seq) ==
    IF q # <<>>
    THEN IF seq > q[Len(q)].seq THEN q \o Holes(q[Len(q)].seq, seq) ELSE q
    ELSE <<Hole(seq)>>

\* A plausible slip: only the slot of the packet is appended, without the
\* slots of the packets between the back and it.
ExtendQueue_no_holes(q, seq) ==
    IF q # <<>>
    THEN IF seq > q[Len(q)].seq THEN q \o <<Hole(seq)>> ELSE q
    ELSE <<Hole(seq)>>

\* Session::send_packet, "expand queue to make space for new packet"
ExtendQueue(q, seq) ==
    IF q # <<>>
    THEN IF seq > q[Len(q)].seq THEN q \o Holes(q[Len(q)].seq + 1, seq) ELSE q
    ELSE <<Hole(seq)>>

\* A plausible slip: the packet is stored in the front slot, whatever its seq.
FillSlot_front(q, agg, p) ==
    [queue |-> [q EXCEPT ![1].pts = adjust_pts(agg, from_micros_lossy(p.pts)),
                         ![1].audio = Some(p.seq)],
     panic |-> FALSE]

\* Session::send_packet from "let front_seq": the slot for the packet is
\* looked up by its distance from the front and filled.  The subtraction
\* underflows for a packet before the front, get_mut(..).unwrap() fails for an
\* index past the back, and assert!(slot.seq == seq) fails for a wrong slot:
\* each of them panics.
FillSlot(q, agg, p) ==
    LET idx == p.seq - q[1].seq
    IN  IF idx < 0 \/ idx >= Len(q) \/ q[idx + 1].seq # p.seq
        THEN [queue |-> q, panic |-> TRUE]
        ELSE [queue |-> [q EXCEPT ![idx + 1].pts = adjust_pts(agg, from_micros_lossy(p.pts)),
                                  ![idx + 1].audio = Some(p.seq)],
              panic |-> FALSE]

\* Session::start: a session for the packet's stream, with a fresh Shared
SessionStart(p) ==
    /\ ~started
    /\ started' = TRUE
    /\ sid' = p.sid
    /\ start_seq' = p.seq
    /\ queue' = <<>>
    /\ sync' = FALSE
    /\ clock_delta' = AggregateDefault
    /\ stream_status' = 0
    /\ last' = [op |-> "start", packet |-> p]
    /\ UNCHANGED <<data, panicked, rate_vars, buffer_vars, aux_vars>>

\* what the history keeps of the queue: the seq of its front and of its back
Ends(q) == IF q = <<>> THEN None ELSE Some(<<q[1].seq, q[Len(q)].seq>>)

\* Session::send_packet
send_packet(p) ==
    /\ started /\ ~panicked
    /\ last' = [op |-> "send_packet", packet |-> p, ends |-> Ends(queue),
                hole |-> \E i \in 1..Len(queue) :
                            queue[i].seq = p.seq /\ queue[i].audio = None]
    /\ IF sid # p.sid
       THEN \* assert!(self.sid == packet.header().sid)
            /\ panicked' = TRUE
            /\ UNCHANGED queue
       ELSE LET f == FillSlot(ExtendQueue(queue, p.seq), clock_delta, p)
            IN  /\ queue' = f.queue
                /\ panicked' = f.panic
    /\ UNCHANGED <<started, sid, start_seq, sync, clock_delta, stream_status, data,
                   rate_vars, buffer_vars, aux_vars>>

\* The audio arm of the receive loop in run: the call that would hand the
\* packet to the receiver is commented out, the packet is dropped.
receive_audio(p) ==
    /\ ~panicked
    /\ last' = [op |-> "receive_audio", packet |-> p, started |-> started, sid |-> sid]
    /\ UNCHANGED <<started, sid, start_seq, queue, sync, clock_delta, stream_status,
                   data, panicked, rate_vars, buffer_vars, aux_vars>>

\* Aggregate::observe on Shared.timing.clock_delta (the handler of the
\* StreamReply time packet, which would call it, is commented out in run)
observe_clock_delta(d) ==
    /\ started /\ ~panicked
    /\ clock_delta.count < MaxObserve
    /\ clock_delta' = observe(clock_delta, d)
    /\ last' = [op |-> "observe"]
    /\ UNCHANGED <<started, sid, start_seq, queue, sync, stream_status, data, panicked,
                   rate_vars, buffer_vars, aux_vars>>


\* SampleDuration::ONE_PACKET
ONE_PACKET == FRAMES_PER_PACKET

\* the output slice after its first z samples were filled with 0f32
Filled(len, z) == [i \in 1..len |-> IF i <= z THEN ZERO ELSE STALE]

\* A plausible slip: "late > ONE_PACKET", so a head that is late by exactly
\* one packet is kept and consumed whole.
RECURSIVE Seek_late_off_by_one(_, _, _, _)
Seek_late_off_by_one(q, pts, len, popped) ==
    IF q = <<>>
    THEN [queue |-> q, sync |-> FALSE, exit |-> "empty", zeros |-> 0, popped |-> popped]
    ELSE IF q[1].pts = None
    THEN [queue |-> Tail(q), sync |-> FALSE, exit |-> "no_pts", zeros |-> len,
          popped |-> popped + 1]
    ELSE LET front_pts == Unwrap(q[1].pts)
         IN  IF pts > front_pts
             THEN IF pts - front_pts > ONE_PACKET
                  THEN Seek_late_off_by_one(Tail(q), pts, len, popped + 1)
                  ELSE [queue |-> [q EXCEPT ![1].consumed = pts - front_pts],
                        sync |-> TRUE, exit |-> "late_partial", zeros |-> 0,
                        popped |-> popped]
             ELSE IF front_pts - pts >= from_buffer_offset(len)
                  THEN [queue |-> q, sync |-> FALSE, exit |-> "early_all", zeros |-> len,
                        popped |-> popped]
                  ELSE [queue |-> q, sync |-> TRUE, exit |-> "early_partial",
                        zeros |-> as_buffer_offset(front_pts - pts), popped |-> popped]

\* A plausible slip: the head is consumed by a count of samples
\* (late.as_buffer_offset()) instead of a count of frames.
RECURSIVE Seek_consumed_in_samples(_, _, _, _)
Seek_consumed_in_samples(q, pts, len, popped) ==
    IF q = <<>>
    THEN [queue |-> q, sync |-> FALSE, exit |-> "empty", zeros |-> 0, popped |-> popped]
    ELSE IF q[1].pts = None
    THEN [queue |-> Tail(q), sync |-> FALSE, exit |-> "no_pts", zeros |-> len,
          popped |-> popped + 1]
    ELSE LET front_pts == Unwrap(q[1].pts)
         IN  IF pts > front_pts
             THEN IF pts - front_pts >= ONE_PACKET
                  THEN Seek_consumed_in_samples(Tail(q), pts, len, popped + 1)
                  ELSE [queue |-> [q EXCEPT ![1].consumed = as_buffer_offset(pts - front_pts)],
                        sync |-> TRUE, exit |-> "late_partial", zeros |-> 0,
                        popped |-> popped]
             ELSE IF front_pts - pts >= from_buffer_offset(len)
                  THEN [queue |-> q, sync |-> FALSE, exit |-> "early_all", zeros |-> len,
                        popped |-> popped]
                  ELSE [queue |-> q, sync |-> TRUE, exit |-> "early_partial",
                        zeros |-> as_buffer_offset(front_pts - pts), popped |-> popped]

\* A plausible slip: "early > request", so a front early by exactly the
\* request is taken as early by less.
RECURSIVE Seek_early_off_by_one(_, _, _, _)
Seek_early_off_by_one(q, pts, len, popped) ==
    IF q = <<>>
    THEN [queue |-> q, sync |-> FALSE, exit |-> "empty", zeros |-> 0, popped |-> popped]
    ELSE IF q[1].pts = None
    THEN [queue |-> Tail(q), sync |-> FALSE, exit |-> "no_pts", zeros |-> len,
          popped |-> popped + 1]
    ELSE LET front_pts == Unwrap(q[1].pts)
         IN  IF pts > front_pts
             THEN IF pts - front_pts >= ONE_PACKET
                  THEN Seek_early_off_by_one(Tail(q), pts, len, popped + 1)
                  ELSE [queue |-> [q EXCEPT ![1].consumed = pts - front_pts],
                        sync |-> TRUE, exit |-> "late_partial", zeros |-> 0,
                        popped |-> popped]
             ELSE IF front_pts - pts > from_buffer_offset(len)
                  THEN [queue |-> q, sync |-> FALSE, exit |-> "early_all", zeros |-> len,
                        popped |-> popped]
                  ELSE [queue |-> q, sync |-> TRUE, exit |-> "early_partial",
                        zeros |-> as_buffer_offset(front_pts - pts), popped |-> popped]

\* run_session, the loop "sync up to stream if necessary" (session.rs 184-237),
\* for an output slice of len samples wanted at pts.  The result holds the
\* queue and the sync flag it leaves, how the loop was left, how many leading
\* samples of the slice it zeroed, and how many slots it popped:
\*   "empty"          the queue ran empty: continue 'next
\*   "no_pts"         the front has no PTS: pop it, zero the slice, return
\*   "late_partial"   late by less than a packet: consume part of the front
\*   "early_all"      early by the whole slice or more: zero the slice, return
\*   "early_partial"  early by less: zero the lead, mark synced
RECURSIVE Seek(_, _, _, _)
Seek(q, pts, len, popped) ==
    IF q = <<>>
    THEN [queue |-> q, sync |-> FALSE, exit |-> "empty", zeros |-> 0, popped |-> popped]
    ELSE IF q[1].pts = None
    THEN [queue |-> Tail(q), sync |-> FALSE, exit |-> "no_pts", zeros |-> len,
          popped |-> popped + 1]
    ELSE LET front_pts == Unwrap(q[1].pts)
         IN  IF pts > front_pts
             THEN IF pts - front_pts >= ONE_PACKET
                  THEN Seek(Tail(q), pts, len, popped + 1)
                  ELSE [queue |-> [q EXCEPT ![1].consumed = pts - front_pts],
                        sync |-> TRUE, exit |-> "late_partial", zeros |-> 0,
                        popped |-> popped]
             ELSE IF front_pts - pts >= from_buffer_offset(len)
                  THEN [queue |-> q, sync |-> FALSE, exit |-> "early_all", zeros |-> len,
                        popped |-> popped]
                  ELSE [queue |-> q, sync |-> TRUE, exit |-> "early_partial",
                        zeros |-> as_buffer_offset(front_pts - pts), popped |-> popped]

\* One iteration of the loop of run_session, for an output slice of n frames
\* wanted at pts.  When the stream is in sync the iteration does nothing: the
\* loop body ends after the seek loop.
run_session(pts, n) ==
    /\ started /\ ~panicked
    /\ LET len == as_buffer_offset(n)
           r == IF sync
                THEN [queue |-> queue, sync |-> TRUE, exit |-> "synced", zeros |-> 0,
                      popped |-> 0]
                ELSE Seek(queue, pts, len, 0)
       IN  /\ queue' = r.queue
           /\ sync' = r.sync
           /\ stream_status' = IF r.exit \in {"late_partial", "early_partial"}
                                THEN STATUS_SYNC ELSE stream_status
           /\ data' = Filled(len, r.zeros)
           /\ last' = [op |-> "run_session", pts |-> pts, frames |-> n, sync |-> sync,
                       head |-> IF queue = <<>> THEN None ELSE Some(queue[1]),
                       exit |-> r.exit, popped |-> r.popped]
    /\ UNCHANGED <<started, sid, start_seq, clock_delta, panicked, rate_vars, buffer_vars, aux_vars>>

(***************************************************************************)
(* The output buffer: Shared, Locked, Span, StreamWriter and StreamReader  *)
(* in src/receive/buffer.rs.  Durations are in frames, lengths of slices   *)
(* and of the sample deque in samples.                                     *)
(***************************************************************************)
\* the buffer delay in frames (Output::new: 10 ms, as a SampleDuration)
BufferFrames == 2
\* the writer makes at most MaxWrites calls in a behaviour
MaxWrites == 2

\* Shared.buffer_size and Shared::buffer_duration
buffer_size == as_buffer_offset(BufferFrames)
buffer_duration == from_buffer_offset(buffer_size)

\* the frames a write or a read is called with, and the PTS it is called with
IoFrames == {1, 3}
IoPts == {10, 12}

Zeroes(len) == [i \in 1..len |-> ZERO]

\* Locked::front_mut pops the spans whose remaining is zero: the spans it leaves
RECURSIVE DropEmpty(_)
DropEmpty(sp) ==
    IF sp = <<>> THEN <<>>
    ELSE IF sp[1].remaining # 0 THEN sp
    ELSE DropEmpty(Tail(sp))

\* Locked::push_audio
push_audio(buf, sp, timestamp, samples) ==
    [buffer |-> buf \o samples,
     spans |-> Append(sp, [timestamp |-> Some(timestamp),
                           remaining |-> from_buffer_offset(Len(samples))])]

\* Locked::push_silence
push_silence(buf, sp, duration) ==
    [buffer |-> buf \o Zeroes(as_buffer_offset(duration)),
     spans |-> Append(sp, [timestamp |-> None, remaining |-> duration])]

\* StreamReader::read, the loop "copy audio to output buffer" (buffer.rs
\* 157-180).  dest is the output slice, of which the first filled samples are
\* written.  No statement of the loop consumes the span it copies from.
RECURSIVE ReadLoop(_, _, _, _)
ReadLoop(buf, sp, dest, filled) ==
    IF filled = Len(dest)
    THEN [buffer |-> buf, spans |-> sp, out |-> dest, panic |-> FALSE, underrun |-> FALSE]
    ELSE LET front == DropEmpty(sp)
         IN  IF front = <<>>
             THEN \* underrun: zero the rest, refill the buffer with silence
                  LET refill == push_silence(buf, front, buffer_duration)
                  IN  [buffer |-> refill.buffer, spans |-> refill.spans,
                       out |-> [i \in 1..Len(dest) |-> IF i <= filled THEN dest[i] ELSE ZERO],
                       panic |-> FALSE, underrun |-> TRUE]
             ELSE LET output_duration == from_buffer_offset(Len(dest) - filled)
                      copy_duration == Min(output_duration, front[1].remaining)
                      copy_len == as_buffer_offset(copy_duration)
                  IN  IF Len(buf) < copy_len
                      THEN \* buffer.pop_front().unwrap() on an empty deque
                           [buffer |-> <<>>, spans |-> front,
                            out |-> [i \in 1..Len(dest) |->
                                        IF i > filled /\ i <= filled + Len(buf)
                                        THEN buf[i - filled] ELSE dest[i]],
                            panic |-> TRUE, underrun |-> FALSE]
                      ELSE ReadLoop(SubSeq(buf, copy_len + 1, Len(buf)), front,
                                    [i \in 1..Len(dest) |->
                                        IF i > filled /\ i <= filled + copy_len
                                        THEN buf[i - filled] ELSE dest[i]],
                                    filled + copy_len)

\* the writer is not inside write
WriterIdle == [pc |-> "idle", pts |-> 0, samples |-> <<>>, next |-> <<>>,
               notified |-> FALSE, writes |-> 0]

\* A plausible slip: the turn copies the whole slice, whatever space is free.
WriteTurn_ignores_free(w) ==
    LET pushed == push_audio(buffer, spans, w.pts, w.samples)
    IN  /\ buffer' = pushed.buffer
        /\ spans' = pushed.spans
        /\ writer' = [w EXCEPT !.pc = "wait",
                               !.pts = w.pts + from_buffer_offset(Len(w.samples)),
                               !.next = <<>>,
                               !.notified = FALSE]
        /\ UNCHANGED buf_panicked

\* StreamWriter::write, one turn of its loop up to cond.wait: copy what fits,
\* append a span for it (also when nothing fits), advance pts, wait.
\* buffer_size - buffer.len() is a usize subtraction.
WriteTurn(w) ==
    LET buffer_free == buffer_size - Len(buffer)
        copy_len == Min(Len(w.samples), buffer_free)
        pushed == push_audio(buffer, spans, w.pts, SubSeq(w.samples, 1, copy_len))
    IN  IF buffer_free < 0
        THEN /\ buf_panicked' = TRUE
             /\ writer' = w
             /\ UNCHANGED <<buffer, spans>>
        ELSE /\ buffer' = pushed.buffer
             /\ spans' = pushed.spans
             /\ writer' = [w EXCEPT !.pc = "wait",
                                    !.pts = w.pts + from_buffer_offset(copy_len),
                                    !.next = SubSeq(w.samples, copy_len + 1, Len(w.samples)),
                                    !.notified = FALSE]
             /\ UNCHANGED buf_panicked

\* StreamWriter::write is called with n frames of audio for pts
write(pts, n) ==
    /\ ~buf_panicked
    /\ writer.pc = "idle"
    /\ writer.writes < MaxWrites
    /\ WriteTurn([writer EXCEPT !.pts = pts, !.writes = writer.writes + 1,
                                !.samples = [i \in 1..as_buffer_offset(n) |->
                                                AudioSample(writer.writes + 1, i)]])
    /\ rd' = [op |-> "write"]
    /\ UNCHANGED <<offset, out, rate_vars, session_vars, aux_vars>>

\* cond.wait returns after a notify: "advance around loop", then either the
\* next turn or the return of write
write_wake ==
    /\ ~buf_panicked
    /\ writer.pc = "wait"
    /\ writer.notified
    /\ IF writer.next = <<>>
       THEN /\ writer' = [writer EXCEPT !.pc = "idle", !.samples = <<>>, !.notified = FALSE]
            /\ UNCHANGED <<buffer, spans, buf_panicked>>
       ELSE WriteTurn([writer EXCEPT !.samples = writer.next])
    /\ rd' = [op |-> "write_wake"]
    /\ UNCHANGED <<offset, out, rate_vars, session_vars, aux_vars>>

\* StreamReader::read for an output slice of n frames wanted at pts
read(pts, n) ==
    /\ ~buf_panicked
    /\ LET r == ReadLoop(buffer, spans, [i \in 1..as_buffer_offset(n) |-> STALE], 0)
       IN  /\ offset' = IF spans # <<>> /\ spans[1].timestamp # None
                        THEN Some(pts - Unwrap(spans[1].timestamp)) ELSE None
           /\ buffer' = r.buffer
           /\ spans' = r.spans
           /\ out' = r.out
           /\ buf_panicked' = r.panic
           /\ rd' = [op |-> "read", pts |-> pts, frames |-> n, buffered |-> Len(buffer),
                     spans |-> Len(spans), underrun |-> r.underrun]
           \* cond.notify_all(), unless the thread panicked before it
           /\ writer' = IF writer.pc = "wait" /\ ~r.panic
                        THEN [writer EXCEPT !.notified = TRUE] ELSE writer
    /\ UNCHANGED <<rate_vars, session_vars, aux_vars>>

\* every variable of the other components keeps its initial value
SessionInit ==
    /\ started = FALSE
    /\ sid = 0
    /\ start_seq = 0
    /\ queue = <<>>
    /\ sync = FALSE
    /\ clock_delta = AggregateDefault
    /\ stream_status = 0
    /\ data = <<>>
    /\ last = [op |-> "init"]
    /\ panicked = FALSE

BufferInit ==
    /\ buffer = <<>>
    /\ spans = <<>>
    /\ offset = None
    /\ out = <<>>
    /\ rd = [op |-> "init"]
    /\ writer = WriterIdle
    /\ buf_panicked = FALSE

(***************************************************************************)
(* The receiver statistics block (src/stats/receiver.rs).                  *)
(***************************************************************************)
\* Flags: the "present" bit of each field
HAS_AUDIO_LATENCY == 4
HAS_BUFFER_LENGTH == 8
HAS_NETWORK_LATENCY == 16
HAS_PREDICT_OFFSET == 32
StatFlags == {HAS_AUDIO_LATENCY, HAS_BUFFER_LENGTH, HAS_NETWORK_LATENCY,
              HAS_PREDICT_OFFSET}

\* Timestamp::to_micros_lossy and SampleDuration::to_std_duration_lossy, in
\* microseconds
to_micros_lossy(frames) == (frames * 1000000) \div SAMPLE_RATE

\* the f64 number of seconds micros / 1_000_000.0
Seconds(micros) == [micros |-> micros, per |-> 1000000]

\* StreamStatus::into_u8 and StreamStatus::from_u8
into_u8(status) ==
    CASE status = "Seek" -> STATUS_SEEK
      [] status = "Sync" -> STATUS_SYNC
      [] status = "Slew" -> STATUS_SLEW
      [] status = "Miss" -> STATUS_MISS

from_u8(u) ==
    CASE u = 1 -> Some("Seek")
      [] u = 2 -> Some("Sync")
      [] u = 3 -> Some("Slew")
      [] u = 4 -> Some("Miss")
      [] OTHER -> None

\* ReceiverStats::new: the zeroed block (flags is the set of the bits set)
ReceiverStatsNew ==
    [flags |-> {}, stream_status |-> 0,
     audio_latency |-> Seconds(0), buffer_length |-> Seconds(0),
     network_latency |-> Seconds(0), predict_offset |-> Seconds(0)]

\* ReceiverStats::stream, ::set_stream
stream(s) == from_u8(s.stream_status)
set_stream(s, status) == [s EXCEPT !.stream_status = into_u8(status)]

\* ReceiverStats::clear, were it to leave the present bits alone
clear_keeps_flags(s) == set_stream(s, "Seek")

\* ReceiverStats::clear
clear(s) == [set_stream(s, "Seek") EXCEPT !.flags = {}]

\* ReceiverStats::field
field(s, flag, value) == IF flag \in s.flags THEN Some(value) ELSE None

\* the four getters
audio_latency(s) == field(s, HAS_AUDIO_LATENCY, s.audio_latency)
buffer_length(s) == field(s, HAS_BUFFER_LENGTH, s.buffer_length)
network_latency(s) == field(s, HAS_NETWORK_LATENCY, s.network_latency)
predict_offset(s) == field(s, HAS_PREDICT_OFFSET, s.predict_offset)

\* the getter of the field whose present bit is flag
getter(s, flag) ==
    CASE flag = HAS_AUDIO_LATENCY -> audio_latency(s)
      [] flag = HAS_BUFFER_LENGTH -> buffer_length(s)
      [] flag = HAS_NETWORK_LATENCY -> network_latency(s)
      [] flag = HAS_PREDICT_OFFSET -> predict_offset(s)

\* the four setters; timestamps and sample durations are in frames, std
\* durations and diff_usec in microseconds
set_audio_latency(s, request_pts, packet_pts) ==
    [s EXCEPT !.audio_latency =
                  Seconds(to_micros_lossy(request_pts) - to_micros_lossy(packet_pts)),
              !.flags = @ \cup {HAS_AUDIO_LATENCY}]

set_buffer_length(s, length) ==
    [s EXCEPT !.buffer_length = Seconds(to_micros_lossy(length)),
              !.flags = @ \cup {HAS_BUFFER_LENGTH}]

set_network_latency(s, lat) ==
    [s EXCEPT !.network_latency = Seconds(lat),
              !.flags = @ \cup {HAS_NETWORK_LATENCY}]

set_predict_offset(s, diff_usec) ==
    [s EXCEPT !.predict_offset = Seconds(diff_usec),
              !.flags = @ \cup {HAS_PREDICT_OFFSET}]

\* the arguments of the calls: timestamps and lengths in frames (one and two
\* milliseconds), durations and offsets in microseconds
StatFrames == {48, 96}
StatMicros == {-3, 7}

\* a call of a setter on the block; the history records the value it stored
StatsSet(next, flag) ==
    /\ stats' = next
    /\ since' = [since EXCEPT ![flag] =
                    Some(CASE flag = HAS_AUDIO_LATENCY -> next.audio_latency
                           [] flag = HAS_BUFFER_LENGTH -> next.buffer_length
                           [] flag = HAS_NETWORK_LATENCY -> next.network_latency
                           [] flag = HAS_PREDICT_OFFSET -> next.predict_offset)]
    /\ stats_op' = [op |-> "set", flag |-> flag, before |-> stats]
    /\ UNCHANGED <<rate_vars, session_vars, buffer_vars, timing_vars, net_vars,
                   cancel_vars, encode_vars, slew_vars>>

call_set_audio_latency(request_pts, packet_pts) ==
    StatsSet(set_audio_latency(stats, request_pts, packet_pts), HAS_AUDIO_LATENCY)

call_set_buffer_length(length) ==
    StatsSet(set_buffer_length(stats, length), HAS_BUFFER_LENGTH)

call_set_network_latency(lat) ==
    StatsSet(set_network_latency(stats, lat), HAS_NETWORK_LATENCY)

call_set_predict_offset(diff_usec) ==
    StatsSet(set_predict_offset(stats, diff_usec), HAS_PREDICT_OFFSET)

call_set_stream(status) ==
    /\ stats' = set_stream(stats, status)
    /\ stats_op' = [op |-> "set_stream", before |-> stats]
    /\ UNCHANGED <<since, rate_vars, session_vars, buffer_vars, timing_vars, net_vars,
                   cancel_vars, encode_vars, slew_vars>>

call_clear ==
    /\ stats' = clear(stats)
    /\ since' = [f \in StatFlags |-> None]
    /\ stats_op' = [op |-> "clear", before |-> stats]
    /\ UNCHANGED <<rate_vars, session_vars, buffer_vars, timing_vars, net_vars,
                   cancel_vars, encode_vars, slew_vars>>

\* ReceiverStats::new
StatsInit ==
    /\ stats = ReceiverStatsNew
    /\ since = [f \in StatFlags |-> None]
    /\ stats_op = [op |-> "new"]

(***************************************************************************)
(* The receiver's threads and the quit flag (src/receive/session.rs,       *)
(* src/receive/mod.rs).                                                    *)
(***************************************************************************)
\* Shared::default and the two threads at the top of their loops
CancelInit ==
    /\ quit = FALSE
    /\ session_thread = "loop"
    /\ net_thread = "recv_from"

\* the receiver is signalled to quit: Shared.quit becomes true
signal_quit ==
    /\ ~quit
    /\ quit' = TRUE
    /\ UNCHANGED <<session_thread, net_thread, rate_vars, session_vars, buffer_vars,
                   timing_vars, net_vars, stats_vars, encode_vars, slew_vars>>

\* the top of an iteration of the loop of run_session: lock, look at quit,
\* break out of the loop when it is set
session_loop ==
    /\ session_thread = "loop"
    /\ session_thread' = IF quit THEN "exited" ELSE "loop"
    /\ UNCHANGED <<quit, net_thread, rate_vars, session_vars, buffer_vars,
                   timing_vars, net_vars, stats_vars, encode_vars, slew_vars>>

\* recv_from fails (the socket was closed or broke): run returns the error
receive_error ==
    /\ net_thread = "recv_from"
    /\ net_thread' = "exited"
    /\ UNCHANGED <<quit, session_thread, rate_vars, session_vars, buffer_vars,
                   timing_vars, net_vars, stats_vars, encode_vars, slew_vars>>

(***************************************************************************)
(* The encoder of the source (src/source/encode.rs).                       *)
(***************************************************************************)
\* the session ID the encoder was created with
ENCODER_SID == 1

\* the frames of one Encoder::write: at most MaxEncode frames, each one of
\* EncodeFrames
MaxEncode == 5
EncodeFrames == {1, 2}
EncodeData == UNION {[1..n -> EncodeFrames] : n \in 0..MaxEncode}

\* PcmFloat32::new
EncoderNew == [packet |-> None, seq |-> 1, sent |-> <<>>, panicked |-> FALSE]

\* AudioWriter::remaining, AudioWriter::full
remaining(pk) == ONE_PACKET - Len(pk.frames)
full(pk) == remaining(pk) = 0

\* the loop of Encoder::write on the frames d: write_to_packet copies what
\* fits into the packet being filled; the rest of the input is then taken as
\* the slice data[n..0], which panics for every n above 0; a full packet is
\* finalized with the next sequence number and broadcast
RECURSIVE EncoderWrite(_, _, _, _)
EncoderWrite(e, d, pts, now) ==
    IF Len(d) = 0 THEN e
    ELSE LET pk == IF e.packet = None THEN [frames |-> <<>>, pts |-> pts]
                   ELSE Unwrap(e.packet)
             duration == IF Len(d) < remaining(pk) THEN Len(d) ELSE remaining(pk)
             written == [pk EXCEPT !.frames = @ \o SubSeq(d, 1, duration)]
             e1 == [e EXCEPT !.packet = Some(written)]
         IN  IF duration > 0
             THEN [e1 EXCEPT !.panicked = TRUE]
             ELSE LET e2 == IF full(written)
                            THEN [e1 EXCEPT !.packet = None,
                                            !.seq = @ + 1,
                                            !.sent = Append(@, [sid |-> ENCODER_SID,
                                                                seq |-> e1.seq,
                                                                pts |-> written.pts,
                                                                dts |-> now,
                                                                frames |-> written.frames])]
                            ELSE e1
                  IN  EncoderWrite(e2, <<>>, pts + duration, now)

\* Encoder::write(data, pts)
encoder_write(d, pts, now) ==
    /\ ~enc_panicked
    /\ LET e == EncoderWrite([packet |-> enc_packet, seq |-> enc_seq,
                              sent |-> broadcast, panicked |-> FALSE], d, pts, now)
       IN  /\ enc_packet' = e.packet
           /\ enc_seq' = e.seq
           /\ broadcast' = e.sent
           /\ enc_panicked' = e.panicked
    /\ input' = input \o d
    /\ UNCHANGED <<rate_vars, session_vars, buffer_vars, timing_vars, net_vars,
                   stats_vars, cancel_vars, slew_vars>>

EncodeInit ==
    /\ enc_packet = EncoderNew.packet
    /\ enc_seq = EncoderNew.seq
    /\ broadcast = EncoderNew.sent
    /\ enc_panicked = EncoderNew.panicked
    /\ input = <<>>

\* Timing::default: no latency observed yet
TimingInit ==
    /\ latency = AggregateDefault
    /\ observed = <<>>

\* no datagram received yet
NetInit ==
    /\ handled = [op |-> "init"]
    /\ running = [s \in Sids |-> TRUE]

AuxInit == TimingInit /\ NetInit /\ StatsInit /\ CancelInit /\ EncodeInit /\ SlewInit

InitRate == RateInit /\ SessionInit /\ BufferInit /\ AuxInit

NextRate ==
    \/ \E off \in Offsets, checks \in BOOLEAN : SlewRate(off, checks)
    \/ SlewRateNoOffset

SpecRate == InitRate /\ [][NextRate]_vars

(***************************************************************************)
(* Claims about the rate controller.                                       *)
(***************************************************************************)

\* C9: slew hysteresis.  Over any sequence of calculate calls starting with
\* the flag clear, the flag becomes true only on a call with |offset| at or
\* above the start threshold, stays true on every later call with |offset| at
\* or above the stop threshold, and is cleared by any call with |offset| below
\* the stop threshold.  The thresholds are the ones the code compares with:
\* 2000 us and 100 us converted to whole frames.
C9_SlewHysteresis ==
    \A i \in 1..Len(calls) :
        LET c == calls[i]
            prev == c.before
        IN  /\ i > 1 => prev = calls[i - 1].slew
            /\ (~prev /\ c.slew) => ~AbsLt(c.offset, start_slew_threshold)
            /\ (prev /\ ~AbsLt(c.offset, stop_slew_threshold)) => c.slew
            /\ AbsLt(c.offset, stop_slew_threshold) => ~c.slew

\* the end of the traversal 3000 us -> 500 us -> 50 us (144, 24 and 2 frames):
\* the flag, set before, is kept at 24 frames and cleared at 2 frames
C9_Witness ==
    /\ Len(calls) = 2
    /\ calls[1].offset = Wide(24) /\ calls[1].before /\ calls[1].slew
    /\ calls[2].offset = Wide(2) /\ ~calls[2].slew

\* The rate the formula of the claim gives: R + offset_frames * 10^6 /
\* slew_window_us over the integers, clamped into [0.98 R, 2 R].
ExactRate(off) == ClampRate(DivTrunc(RateProduct(off), SLEW_TARGET_US))

\* C10: slew rate and clamp.  Every call returns; whenever the controller is
\* slewing the rate returned is R + offset_frames * 10^6 / slew_window_us
\* clamped into [0.98 R, 2 R]; and the rate chosen lies in [0.98 R, 2 R] for
\* every offset and flag state.
C10_SlewRateClamp ==
    /\ ~rate_panicked
    /\ min_rate <= rate /\ rate <= max_rate
    /\ \A i \in 1..Len(calls) :
        /\ ~calls[i].panic
        /\ calls[i].result # None => Unwrap(calls[i].result) = ExactRate(calls[i].offset)

\* the same statement for the offsets whose product with 10^6 fits 64 bits
RateClampInRange ==
    \A i \in 1..Len(calls) :
        ~Overflows64(RateProduct(calls[i].offset)) =>
            /\ ~calls[i].panic
            /\ calls[i].result # None =>
                /\ Unwrap(calls[i].result) = ExactRate(calls[i].offset)
                /\ min_rate <= Unwrap(calls[i].result)
                /\ Unwrap(calls[i].result) <= max_rate

InitSession == RateInit /\ SessionInit /\ BufferInit /\ AuxInit

\* the session as the network thread and the session thread drive it
NextSession ==
    \/ \E p \in Packets : SessionStart(p)
    \/ \E p \in Packets : send_packet(p)
    \/ \E d \in DeltaMicros : observe_clock_delta(d)
    \/ \E pts \in PtsNow, n \in FrameCounts : run_session(pts, n)

SpecSession == InitSession /\ [][NextSession]_vars

\* the receive loop of run, which is handed every audio packet on the network
NextReceive ==
    \/ \E p \in Packets : SessionStart(p)
    \/ \E p \in Packets : send_packet(p)
    \/ \E p \in Packets : receive_audio(p)
    \/ \E d \in DeltaMicros : observe_clock_delta(d)

SpecReceive == InitSession /\ [][NextReceive]_vars

(***************************************************************************)
(* Claims about the packet queue and the seek loop.                        *)
(***************************************************************************)
IsRun == last.op = "run_session"
\* the last iteration of run_session began out of sync with a front whose PTS is known
SeekingWithPts == IsRun /\ ~last.sync /\ last.head # None /\ Unwrap(last.head).pts # None
HeadPts == Unwrap(Unwrap(last.head).pts)
HeadSeq == Unwrap(last.head).seq

\* C1: output order.  The audio of the queue is handed to the output in
\* sequence order, each packet once, and a hole is rendered as silence of one
\* packet duration: an iteration that begins in sync with a non-empty queue
\* puts into the output slice the next samples of the front, its audio from
\* the consumed offset on, or zeroes if it is a hole.
C1_OutputInSequenceOrder ==
    (IsRun /\ last.sync /\ last.head # None) =>
        LET h == Unwrap(last.head)
            k == as_buffer_offset(Min(last.frames, ONE_PACKET - h.consumed))
        IN  \A i \in 1..k :
                data[i] = IF h.audio = None THEN ZERO
                          ELSE AudioSample(h.seq, as_buffer_offset(h.consumed) + i)

Contiguous(q) == \A i \in 1..(Len(q) - 1) : q[i + 1].seq = q[i].seq + 1

\* C2: queue contiguity.  In every state reachable by pushes in any arrival
\* order, the entries of the queue are contiguous in seq:
\* q[i+1].seq = q[i].seq + 1 for every index i.
C2_QueueContiguity == Contiguous(queue)

\* a packet arrived out of order, within the gap bound, and filled the hole
\* that an earlier push had left between two packets
C2_Witness ==
    /\ last.op = "send_packet" /\ ~panicked
    /\ last.ends # None
    /\ last.packet.seq < Unwrap(last.ends)[2]
    /\ Unwrap(last.ends)[2] - Unwrap(last.ends)[1] <= max_seq_gap
    /\ Len(queue) = 3
    /\ \A i \in 1..3 : queue[i].audio # None

\* C3: sequence gate.  With the queue non-empty, front.seq = A and
\* back.seq = S, a push of sequence s below A or above S + MaxSeqGap resets
\* the queue: the existing entries are discarded and the packet is not
\* stored alongside them.
C3_SequenceGate ==
    (last.op = "send_packet" /\ last.packet.sid = sid /\ last.ends # None) =>
        LET A == Unwrap(last.ends)[1]
            S == Unwrap(last.ends)[2]
            s == last.packet.seq
        IN  (s < A \/ s > S + max_seq_gap) =>
                /\ ~panicked
                /\ Len(queue) = 1
                /\ queue[1].seq = s

\* C4: session handling.  An audio packet received with a session ID above
\* the current one makes the receiver discard its queue, re-open it at the
\* packet's seq, reset the clock estimator and adopt the new session ID; a
\* packet with a lower session ID leaves the session as it is.
C4_SessionTakeover ==
    (last.op = "receive_audio" /\ last.started) =>
        /\ last.packet.sid > last.sid =>
            /\ sid = last.packet.sid
            /\ start_seq = last.packet.seq
            /\ clock_delta = AggregateDefault
            /\ \A i \in 1..Len(queue) : queue[i].seq >= last.packet.seq
        /\ last.packet.sid < last.sid => sid = last.sid

\* C6: late by a packet or more.  While seeking, a front with
\* skew = pts_now - front.pts >= F is popped and the decision is repeated on
\* the next front; the stream becomes Sync only on a front with skew < F.
C6_LateByPacketDropsHead ==
    (SeekingWithPts /\ last.pts - HeadPts >= ONE_PACKET) =>
        /\ last.popped >= 1
        /\ queue = <<>> \/ queue[1].seq > HeadSeq
        /\ sync => /\ queue # <<>>
                   /\ queue[1].pts # None
                   /\ last.pts - Unwrap(queue[1].pts) < ONE_PACKET
        /\ ~sync => stream_status # STATUS_SYNC

\* a front too late by a packet or more was dropped, and the stream synced
\* on the slot after it
C6_Witness ==
    /\ SeekingWithPts /\ last.pts - HeadPts >= ONE_PACKET
    /\ last.popped = 1
    /\ sync /\ queue # <<>>

\* C7: late by less than a packet.  While seeking, with
\* 0 < skew = pts_now - front.pts < F, front.consumed is set to skew, the
\* front is not popped and the stream becomes Sync.
C7_LatePartialConsumesSkew ==
    (SeekingWithPts /\ 0 < last.pts - HeadPts /\ last.pts - HeadPts < ONE_PACKET) =>
        /\ last.popped = 0
        /\ queue # <<>>
        /\ queue[1].seq = HeadSeq
        /\ queue[1].consumed = last.pts - HeadPts
        /\ sync
        /\ stream_status = STATUS_SYNC

\* front PTS 2, output PTS 3: one frame late
C7_Witness ==
    /\ SeekingWithPts /\ HeadPts = 2 /\ last.pts = 3
    /\ sync /\ queue # <<>> /\ queue[1].consumed = 1

\* C8: early by less than the request.  While seeking, with skew <= 0 and
\* lead = -skew below the N frames asked for, the first lead frames of the
\* output are zeroes, the remaining N - lead frames are taken from the front,
\* and the stream becomes Sync.
C8_EarlyPartialFillsFromHead ==
    (SeekingWithPts /\ last.pts <= HeadPts /\ HeadPts - last.pts < last.frames) =>
        LET z == as_buffer_offset(HeadPts - last.pts)
        IN  /\ sync
            /\ \A i \in 1..Min(Len(data), z + as_buffer_offset(ONE_PACKET)) :
                data[i] = IF i <= z THEN ZERO
                          ELSE AudioSample(HeadSeq, i - z)

\* C14: bounded queue.  After any sequence of pushes the queue never extends
\* more than MaxSeqGap sequence numbers beyond its front:
\* back.seq - front.seq <= MaxSeqGap.
C14_QueueBounded ==
    queue # <<>> => queue[Len(queue)].seq - queue[1].seq <= max_seq_gap

InitBuffer == RateInit /\ SessionInit /\ BufferInit /\ AuxInit

NextBuffer ==
    \/ \E pts \in IoPts, n \in IoFrames : write(pts, n)
    \/ write_wake
    \/ \E pts \in IoPts, n \in IoFrames : read(pts, n)

SpecBuffer == InitBuffer /\ [][NextBuffer]_vars

(***************************************************************************)
(* Claims about the output buffer.                                         *)
(***************************************************************************)

\* C5: underrun fill.  When read runs out of buffered samples before the
\* output slice is filled, in particular when the buffer is empty, every
\* sample of the slice not yet filled is set to zero and exactly one silence
\* span (no PTS) of the whole buffer duration is appended to the buffer.
C5_UnderrunFill ==
    (rd.op = "read" /\ rd.buffered < Len(out)) =>
        /\ ~buf_panicked
        /\ \A i \in (rd.buffered + 1)..Len(out) : out[i] = ZERO
        /\ buffer = Zeroes(buffer_size)
        /\ spans # <<>>
        /\ spans[Len(spans)] = [timestamp |-> None, remaining |-> buffer_duration]

\* the underrun branch of read: taken only with no span of remaining > 0 left,
\* it zeroes the rest of the slice and appends the one silence span
UnderrunBranchFills ==
    (rd.op = "read" /\ rd.underrun) =>
        /\ ~buf_panicked
        /\ \A i \in (rd.buffered + 1)..Len(out) : out[i] = ZERO
        /\ buffer = Zeroes(buffer_size)
        /\ spans = <<[timestamp |-> None, remaining |-> buffer_duration]>>

\* The output buffer with a reader that keeps calling read and a writer
\* thread that runs whenever it was woken.
SpecBufferLive ==
    /\ SpecBuffer
    /\ WF_vars(\E pts \in IoPts, n \in IoFrames : read(pts, n))
    /\ WF_vars(write_wake)

\* C11: output buffer capacity.  Under every interleaving of write and read,
\* underrun refills with silence included, the number of samples held in the
\* output buffer never exceeds buffer_size.
C11_BufferCapacity == Len(buffer) <= buffer_size

\* the buffer was refilled with silence after an underrun, it is full, and a
\* write that found no room is waiting with all of its samples
C11_Witness ==
    /\ Len(buffer) = buffer_size
    /\ spans # <<>> /\ spans[1].timestamp = None
    /\ writer.pc = "wait" /\ writer.next # <<>>

\* C12: write completion.  A call of write running against a reader that
\* keeps calling read eventually returns.
C12_WriteCompletion == (writer.pc = "wait") ~> (writer.pc = "idle")

\* the part of C12 about the samples: while a write waits, what it placed so
\* far and what it has left are, in order, the slice it was called with
WritePlacesInOrder ==
    (writer.pc = "wait" /\ ~buf_panicked) =>
        LET placed == Len(writer.samples) - Len(writer.next)
        IN  /\ placed >= 0
            /\ writer.next = SubSeq(writer.samples, placed + 1, Len(writer.samples))
            /\ spans # <<>>
            /\ spans[Len(spans)].remaining = from_buffer_offset(placed)

(***************************************************************************)
(* The rolling window of the clock estimator: Aggregate in                 *)
(* src/receive/session.rs, driven here through Shared.timing.latency.      *)
(***************************************************************************)
\* a behaviour observes at most MaxObserved values, of which at most one is
\* a spike
MaxObserved == 66

\* the steady latencies, which repeat, and the spikes among them
PiDigits == <<3, 1, 4, 1, 5, 9, 2, 6, 5, 3, 5>>
Steady(n) == PiDigits[((n - 1) % Len(PiDigits)) + 1]
Spikes == {0, 7}
IsSpike(n) == observed[n] # Steady(n)
SpikeCount == Cardinality({n \in 1..Len(observed) : IsSpike(n)})

\* Aggregate::observe on Shared.timing.latency
observe_latency(v) ==
    /\ Len(observed) < MaxObserved
    /\ latency' = observe(latency, v)
    /\ observed' = Append(observed, v)
    /\ UNCHANGED <<rate_vars, session_vars, buffer_vars, net_vars, more_vars>>

InitAggregate == RateInit /\ SessionInit /\ BufferInit /\ AuxInit

NextAggregate ==
    \/ observe_latency(Steady(Len(observed) + 1))
    \/ \E v \in Spikes : SpikeCount = 0 /\ observe_latency(v)

SpecAggregate == InitAggregate /\ [][NextAggregate]_vars

\* x is the element at index k (from 0) of the ascending sort of w
IsKthSmallest(w, k, x) ==
    /\ \E i \in 1..Len(w) : w[i] = x
    /\ Cardinality({i \in 1..Len(w) : w[i] < x}) <= k
    /\ Cardinality({i \in 1..Len(w) : w[i] <= x}) > k

\* C13: rolling median.  After any sequence of n observe calls median() is
\* None when n = 0, and otherwise the element at index count/2 of the
\* ascending sort of the window, the window being the most recent
\* min(n, 64) observed values and count = min(n, 64).
C13_RollingMedian ==
    LET n == Len(observed)
        count == Min(n, AGG_LEN)
        window == SubSeq(observed, n - count + 1, n)
        m == median(latency)
    IN  IF n = 0 THEN m = None
        ELSE /\ m # None
             /\ IsKthSmallest(window, count \div 2, Unwrap(m))

\* after 3,1,4,1,5,9,2,6,5,3,5 the median is 4
C13_Witness ==
    /\ observed = PiDigits
    /\ median(latency) = Some(4)

\* the window is full and has wrapped: the oldest value, a spike, left it and
\* the median is still one of the values in it
C13_WrappedWitness ==
    /\ Len(observed) > AGG_LEN
    /\ IsSpike(1)
    /\ latency.count = AGG_LEN
    /\ latency.samples[1] = observed[AGG_LEN + 1]

(***************************************************************************)
(* The wire protocol (src/protocol/packet.rs) and the network threads of   *)
(* the receiver (src/receive/mod.rs) and of the source                     *)
(* (src/source/mod.rs).  A datagram is a record of its length in bytes,    *)
(* the magic and flags of its header, and the fields its payload is read   *)
(* as.                                                                     *)
(***************************************************************************)
\* size_of PacketHeader, AudioPacketHeader, TimePacket and StatsReplyPacket,
\* and the bytes of one f32 sample
HEADER_SIZE == 16
AUDIO_HEADER_SIZE == 32
TIME_PACKET_SIZE == 48
STATS_REPLY_SIZE == 40
SAMPLE_BYTES == 4

\* size_of AudioPacketBuffer: F * C samples
AUDIO_BUFFER_SIZE == FRAMES_PER_PACKET * CHANNELS * SAMPLE_BYTES
\* Audio::LENGTH, Time::LENGTH and StatsReply::LENGTH
AUDIO_LENGTH == AUDIO_HEADER_SIZE + AUDIO_BUFFER_SIZE
TIME_LENGTH == AUDIO_LENGTH
STATS_REPLY_LENGTH == STATS_REPLY_SIZE

\* MAX_PACKET_SIZE, the capacity of the buffer of allocate_buffer
MAX_PACKET_SIZE == HEADER_SIZE + AUDIO_HEADER_SIZE + AUDIO_BUFFER_SIZE

\* Protocol::recv_from: the datagram w on the wire is received into a buffer
\* of allocate_buffer, which holds its first MAX_PACKET_SIZE bytes
recv_from(w) ==
    [w EXCEPT !.len = IF @ > MAX_PACKET_SIZE THEN MAX_PACKET_SIZE ELSE @]

\* ReceiverId::broadcast, and the ID this receiver generated at startup
BROADCAST_RID == 0
RECEIVER_ID == 1

\* ReceiverId::matches
matches(rid, own) == rid = BROADCAST_RID \/ rid = own

\* TimePacket::phase: which timestamps are filled
phase(d) ==
    IF d.stream_1 # 0 /\ d.receive_2 = 0 /\ d.stream_3 = 0 THEN "Broadcast"
    ELSE IF d.stream_1 # 0 /\ d.receive_2 # 0 /\ d.stream_3 = 0 THEN "ReceiverReply"
    ELSE IF d.stream_1 # 0 /\ d.receive_2 # 0 /\ d.stream_3 # 0 THEN "StreamReply"
    ELSE "None"

\* Packet::len: the length of the payload
PayloadLen(d) == d.len - HEADER_SIZE

\* Packet::from_buffer
from_buffer(d) == IF d.len < HEADER_SIZE THEN "None" ELSE "Packet"

\* Audio::parse, Time::parse, StatsRequest::parse, StatsReply::parse
AudioParse(d) ==
    IF PayloadLen(d) # AUDIO_LENGTH THEN "None"
    ELSE IF d.flags # 0 THEN "None" ELSE "Audio"
TimeParse(d) ==
    IF PayloadLen(d) < TIME_LENGTH THEN "None"
    ELSE IF d.flags # 0 THEN "None" ELSE "Time"
StatsRequestParse(d) ==
    IF PayloadLen(d) # 0 THEN "None"
    ELSE IF d.flags # 0 THEN "None" ELSE "StatsRequest"
\* A plausible slip: the stats reply is checked for zero flags like the rest.
StatsReplyParse_zero_flags(d) ==
    IF PayloadLen(d) # STATS_REPLY_LENGTH THEN "None"
    ELSE IF d.flags # 0 THEN "None" ELSE "StatsReply"

StatsReplyParse(d) ==
    IF PayloadLen(d) # STATS_REPLY_LENGTH THEN "None" ELSE "StatsReply"

\* StatsReply::flags: the flags of the header, cast bit for bit
stats_reply_flags(d) == d.flags

\* Packet::from_buffer followed by Packet::parse: the PacketKind, or "None"
parse(d) ==
    IF from_buffer(d) = "None" THEN "None"
    ELSE IF d.magic = "AUDIO" THEN AudioParse(d)
    ELSE IF d.magic = "TIME" THEN TimeParse(d)
    ELSE IF d.magic = "STATS_REQ" THEN StatsRequestParse(d)
    ELSE IF d.magic = "STATS_REPLY" THEN StatsReplyParse(d)
    ELSE "None"

\* the datagrams that arrive: every magic, zero and non-zero flags, lengths
\* around each of the lengths parse compares with, and the fields of a time
\* or audio payload
Magics == {"AUDIO", "TIME", "STATS_REQ", "STATS_REPLY", "OTHER"}
Lengths == {HEADER_SIZE - 1, HEADER_SIZE, HEADER_SIZE + STATS_REPLY_LENGTH,
            HEADER_SIZE + TIME_PACKET_SIZE, HEADER_SIZE + AUDIO_LENGTH - 1,
            HEADER_SIZE + AUDIO_LENGTH, HEADER_SIZE + AUDIO_LENGTH + 1}
Rids == {BROADCAST_RID, RECEIVER_ID, RECEIVER_ID + 1}
Stamps == {0, 5}
\* ... as the payload of a time packet of full length
TimeDatagrams ==
    [magic : {"TIME"}, flags : {0}, len : {HEADER_SIZE + TIME_LENGTH}, sid : Sids,
     rid : Rids, stream_1 : Stamps, receive_2 : Stamps, stream_3 : Stamps]
\* ... and every magic, flags and length around a broadcast time payload
FramedDatagrams ==
    [magic : Magics, flags : {0, 1, 4}, len : Lengths, sid : {1},
     rid : {BROADCAST_RID}, stream_1 : {5}, receive_2 : {0}, stream_3 : {0}]
\* ... and the audio packets of the sources on the network and of one that
\* came up after them
AudioDatagrams ==
    [magic : {"AUDIO"}, flags : {0}, len : {HEADER_SIZE + AUDIO_LENGTH},
     sid : Sids \cup {3}, rid : {BROADCAST_RID}, stream_1 : {0}, receive_2 : {0},
     stream_3 : {0}]
Datagrams == TimeDatagrams \cup FramedDatagrams \cup AudioDatagrams
Peers == {"peer_a", "peer_b"}
\* what TimestampMicros::now returns
Nows == {8}

\* A plausible slip: the receiver answers a broadcast whatever its RID.
time_reply_any_rid(d, peer, t) ==
    IF phase(d) = "Broadcast"
    THEN <<[to |-> peer, datagram |-> [d EXCEPT !.receive_2 = t, !.rid = RECEIVER_ID]]>>
    ELSE <<>>

\* The time arm of the receive loop (mod.rs 72-97): what it sends for the
\* time packet d received from peer at time t.  The StreamReply arm is
\* commented out.
time_reply(d, peer, t) ==
    IF ~matches(d.rid, RECEIVER_ID) THEN <<>>
    ELSE IF phase(d) = "Broadcast"
    THEN <<[to |-> peer, datagram |-> [d EXCEPT !.receive_2 = t, !.rid = RECEIVER_ID]]>>
    ELSE <<>>

\* One iteration of the loop of receive::run on the datagram w that arrives
\* from peer.  The arms for audio and stats requests are commented out, a
\* stats reply and an unknown packet are ignored.
receive_run(w, peer, t) ==
    /\ net_thread = "recv_from"
    /\ LET d == recv_from(w)
       IN  handled' = [op |-> "receive_run", wire |-> w, datagram |-> d,
                       peer |-> peer, now |-> t, kind |-> parse(d),
                       sent |-> IF parse(d) = "Time" THEN time_reply(d, peer, t)
                                ELSE <<>>]
    /\ UNCHANGED <<running, rate_vars, session_vars, buffer_vars, timing_vars, more_vars>>

\* A plausible slip: the time packet is allocated without its padding.
BroadcastTime_unpadded(s, t) ==
    [magic |-> "TIME", flags |-> 0, len |-> HEADER_SIZE + TIME_PACKET_SIZE, sid |-> s,
     rid |-> BROADCAST_RID, stream_1 |-> t, receive_2 |-> 0, stream_3 |-> 0]

\* the time packet the clock thread of source s broadcasts at time t
\* (Time::allocate zeroes it; sid, rid and stream_1 are set)
BroadcastTime(s, t) ==
    [magic |-> "TIME", flags |-> 0, len |-> HEADER_SIZE + TIME_LENGTH, sid |-> s,
     rid |-> BROADCAST_RID, stream_1 |-> t, receive_2 |-> 0, stream_3 |-> 0]

\* StatsReply::source: the flag IS_STREAM and the session ID
STATS_IS_STREAM == 1
SourceStatsReply(s) ==
    [magic |-> "STATS_REPLY", flags |-> STATS_IS_STREAM,
     len |-> HEADER_SIZE + STATS_REPLY_LENGTH, sid |-> s, rid |-> 0,
     stream_1 |-> 0, receive_2 |-> 0, stream_3 |-> 0]

\* an audio packet of the stream of source s, as a source receives it in its
\* loop (source/mod.rs 119-125): full length, zero flags, session ID s
AudioFrom(s) ==
    [magic |-> "AUDIO", flags |-> 0, len |-> HEADER_SIZE + AUDIO_LENGTH, sid |-> s,
     rid |-> BROADCAST_RID, stream_1 |-> 0, receive_2 |-> 0, stream_3 |-> 0]

\* One iteration of the loop of the clock thread of source s ("t1 sender")
source_clock(s, t) ==
    /\ running[s]
    /\ handled' = [op |-> "source_clock", node |-> s, now |-> t,
                   sent |-> <<[to |-> "broadcast", datagram |-> BroadcastTime(s, t)]>>]
    /\ UNCHANGED <<running, rate_vars, session_vars, buffer_vars, timing_vars, more_vars>>

\* A plausible slip: the source answers the replies to any stream.
source_time_reply_any_sid(s, d, peer, t) ==
    IF phase(d) = "ReceiverReply"
    THEN <<[to |-> peer, datagram |-> [d EXCEPT !.stream_3 = t]]>>
    ELSE <<>>

\* The time arm of the loop of source::run (source/mod.rs 130-149): what
\* source s sends for the time packet d received from peer at time t
source_time_reply(s, d, peer, t) ==
    IF d.sid # s THEN <<>>
    ELSE IF phase(d) = "ReceiverReply"
    THEN <<[to |-> peer, datagram |-> [d EXCEPT !.stream_3 = t]]>>
    ELSE <<>>

\* A plausible slip: ">=", so the source yields to its own audio.
takeover_or_equal(s, d) == d.sid >= s

\* The audio arm of the loop of source::run (source/mod.rs 122-129):
\* another stream takes over
takeover(s, d) == d.sid > s

\* One iteration of the loop of source::run of source s on the datagram w
\* that arrives from peer
source_run(s, w, peer, t) ==
    /\ running[s]
    /\ LET d == recv_from(w)
           kind == parse(d)
           exits == kind = "Audio" /\ takeover(s, d)
       IN  /\ handled' = [op |-> "source_run", node |-> s, wire |-> w, datagram |-> d,
                          peer |-> peer, now |-> t, kind |-> kind, exited |-> exits,
                          sent |-> IF kind = "Time" THEN source_time_reply(s, d, peer, t)
                                   ELSE IF kind = "StatsRequest"
                                   THEN <<[to |-> peer, datagram |-> SourceStatsReply(s)]>>
                                   ELSE <<>>]
           /\ running' = IF exits THEN [running EXCEPT ![s] = FALSE] ELSE running
    /\ UNCHANGED <<rate_vars, session_vars, buffer_vars, timing_vars, more_vars>>

InitNet == RateInit /\ SessionInit /\ BufferInit /\ AuxInit

NextNet ==
    \/ \E d \in Datagrams, peer \in Peers, t \in Nows : receive_run(d, peer, t)
    \/ \E src \in Sids, t \in Nows : source_clock(src, t)
    \/ \E src \in Sids, d \in Datagrams, peer \in Peers, t \in Nows :
          source_run(src, d, peer, t)

SpecNet == InitNet /\ [][NextNet]_vars

\* C16: receiver side of the time exchange.  For a TIME packet in phase
\* Broadcast whose RID matches this receiver (the broadcast sentinel
\* matches) the receiver sends exactly one reply, to the peer the packet came
\* from, with receive_2 set to its current time, rid set to its own ID and
\* every other field unchanged, so that the reply is in phase ReceiverReply;
\* for every other datagram it sends nothing and changes no state.
C16_ReceiverTimeReply ==
    handled.op = "receive_run" =>
        LET d == handled.datagram
        IN  IF handled.kind = "Time" /\ phase(d) = "Broadcast" /\ matches(d.rid, RECEIVER_ID)
            THEN /\ Len(handled.sent) = 1
                 /\ handled.sent[1].to = handled.peer
                 /\ handled.sent[1].datagram = [d EXCEPT !.receive_2 = handled.now, !.rid = RECEIVER_ID]
                 /\ phase(handled.sent[1].datagram) = "ReceiverReply"
            ELSE /\ handled.sent = <<>>
                 /\ clock_delta = AggregateDefault /\ latency = AggregateDefault
                 /\ queue = <<>> /\ ~started

\* a broadcast time packet from a source was answered
C16_Witness ==
    /\ handled.op = "receive_run" /\ handled.kind = "Time"
    /\ handled.datagram.rid = BROADCAST_RID /\ phase(handled.datagram) = "Broadcast"
    /\ Len(handled.sent) = 1 /\ handled.sent[1].datagram.rid = RECEIVER_ID

\* the sample the window holds at its newest position
Newest(agg) == agg.samples[((agg.index + AGG_LEN - 1) % AGG_LEN) + 1]

\* C17: clock estimator update.  A TIME packet in phase StreamReply received
\* with a matching RID adds one sample to each rolling window: the one-way
\* latency ((receive_4 - stream_1) - (stream_3 - receive_2)) / 2 and the
\* clock delta ((receive_2 - stream_1) + (receive_4 - stream_3)) / 2, with
\* receive_4 the receiver's time on arrival.
C17_EstimatorUpdate ==
    (/\ handled.op = "receive_run" /\ handled.kind = "Time"
     /\ phase(handled.datagram) = "StreamReply"
     /\ matches(handled.datagram.rid, RECEIVER_ID)) =>
        LET d == handled.datagram
            receive_4 == handled.now
        IN  /\ latency.count >= 1
            /\ clock_delta.count >= 1
            /\ Newest(latency) =
                  ((receive_4 - d.stream_1) - (d.stream_3 - d.receive_2)) \div 2
            /\ Newest(clock_delta) =
                  ((d.receive_2 - d.stream_1) + (receive_4 - d.stream_3)) \div 2

\* C18: source side of the time exchange.  The clock thread broadcasts a
\* Broadcast-phase TIME packet with the source's sid, the broadcast RID and
\* stream_1 = now; for a received TIME packet in phase ReceiverReply with the
\* source's own sid the source sets stream_3 and sends the packet back to
\* the peer it came from, rid, stream_1 and receive_2 preserved; a TIME
\* packet with another sid or in another phase produces no reply.
C18_SourceTimeExchange ==
    /\ handled.op = "source_clock" =>
          /\ Len(handled.sent) = 1
          /\ handled.sent[1].to = "broadcast"
          /\ handled.sent[1].datagram.magic = "TIME"
          /\ handled.sent[1].datagram.sid = handled.node
          /\ handled.sent[1].datagram.rid = BROADCAST_RID
          /\ handled.sent[1].datagram.stream_1 = handled.now
          /\ phase(handled.sent[1].datagram) = "Broadcast"
    /\ (handled.op = "source_run" /\ handled.kind = "Time") =>
          LET d == handled.datagram
          IN  IF d.sid = handled.node /\ phase(d) = "ReceiverReply"
              THEN /\ Len(handled.sent) = 1
                   /\ handled.sent[1].to = handled.peer
                   /\ handled.sent[1].datagram = [d EXCEPT !.stream_3 = handled.now]
                   /\ phase(handled.sent[1].datagram) = "StreamReply"
              ELSE handled.sent = <<>>

\* the reply of a receiver to the source's own stream was answered
C18_Witness ==
    /\ handled.op = "source_run" /\ handled.kind = "Time"
    /\ handled.datagram.sid = handled.node
    /\ handled.datagram.rid = RECEIVER_ID
    /\ phase(handled.datagram) = "ReceiverReply"
    /\ Len(handled.sent) = 1 /\ handled.sent[1].to = handled.peer

(***************************************************************************)
(* Two live sources that see each other's audio, and their own.           *)
(***************************************************************************)
\* source s receives an audio packet that the running source o broadcast
\* (its own packets are looped back to it)
source_hears(s, o, peer, t) ==
    /\ running[o]
    /\ source_run(s, AudioFrom(o), peer, t)

InitTakeover == RateInit /\ SessionInit /\ BufferInit /\ AuxInit

NextTakeover ==
    \/ \E s \in Sids, o \in Sids, peer \in Peers, t \in Nows : source_hears(s, o, peer, t)
    \/ \E s \in Sids, d \in TimeDatagrams, peer \in Peers, t \in Nows :
          source_run(s, d, peer, t)
    \/ \E s \in Sids, t \in Nows : source_clock(s, t)

\* every running source keeps sending audio, and every source keeps receiving
SpecTakeover ==
    /\ InitTakeover /\ [][NextTakeover]_vars
    /\ \A s \in Sids, o \in Sids :
          WF_vars(\E peer \in Peers, t \in Nows : source_hears(s, o, peer, t))

LowSid == CHOOSE s \in Sids : \A o \in Sids : s <= o
HighSid == CHOOSE s \in Sids : \A o \in Sids : s >= o

Parsed == handled.op = "receive_run" \/ handled.op = "source_run"

\* C20: packet parse by length.  A datagram shorter than the 16-byte header
\* yields no packet; otherwise, with zero flags, parse accepts an AUDIO
\* packet iff its payload length is exactly size(AudioHeader) + F*C*4, a TIME
\* packet iff its payload length is at least size(TimePacket), a STATS_REQ
\* packet iff its payload length is 0 and a STATS_REPLY packet iff its
\* payload length is exactly size(StatsReplyPacket); every other length is
\* rejected.
C20_ParseByLength ==
    Parsed =>
        LET d == handled.datagram
            payload == d.len - HEADER_SIZE
        IN  /\ d.len < HEADER_SIZE => handled.kind = "None"
            /\ (d.len >= HEADER_SIZE /\ d.flags = 0) =>
                  handled.kind =
                      IF d.magic = "AUDIO"
                         /\ payload = AUDIO_HEADER_SIZE
                                        + FRAMES_PER_PACKET * CHANNELS * SAMPLE_BYTES
                      THEN "Audio"
                      ELSE IF d.magic = "TIME" /\ payload >= TIME_PACKET_SIZE
                      THEN "Time"
                      ELSE IF d.magic = "STATS_REQ" /\ payload = 0
                      THEN "StatsRequest"
                      ELSE IF d.magic = "STATS_REPLY" /\ payload = STATS_REPLY_SIZE
                      THEN "StatsReply"
                      ELSE "None"

\* the same statement with the length the code compares a TIME payload with:
\* Time::LENGTH, the length of an audio payload
ParseByPaddedLength ==
    Parsed =>
        LET d == handled.datagram
            payload == d.len - HEADER_SIZE
        IN  /\ d.len < HEADER_SIZE => handled.kind = "None"
            /\ (d.len >= HEADER_SIZE /\ d.flags = 0) =>
                  handled.kind =
                      IF d.magic = "AUDIO" /\ payload = AUDIO_LENGTH THEN "Audio"
                      ELSE IF d.magic = "TIME" /\ payload >= AUDIO_LENGTH THEN "Time"
                      ELSE IF d.magic = "STATS_REQ" /\ payload = 0 THEN "StatsRequest"
                      ELSE IF d.magic = "STATS_REPLY" /\ payload = STATS_REPLY_SIZE
                      THEN "StatsReply"
                      ELSE "None"

\* C21: packet parse by flags and magic.  An AUDIO, TIME or STATS_REQ packet
\* with non-zero header flags is rejected whatever its length; a STATS_REPLY
\* packet of the right length is accepted for every flags value and the
\* parsed packet returns the flags unchanged, bits outside the role bits
\* included; a packet with any other magic is rejected.
C21_ParseByFlagsAndMagic ==
    Parsed =>
        LET d == handled.datagram
        IN  /\ (d.magic \in {"AUDIO", "TIME", "STATS_REQ"} /\ d.flags # 0) =>
                  handled.kind = "None"
            /\ (d.magic = "STATS_REPLY" /\ d.len = HEADER_SIZE + STATS_REPLY_SIZE) =>
                  /\ handled.kind = "StatsReply"
                  /\ stats_reply_flags(d) = d.flags
            /\ d.magic \notin {"AUDIO", "TIME", "STATS_REQ", "STATS_REPLY"} =>
                  handled.kind = "None"

\* a stats reply with a flag bit outside the role bits was accepted
C21_Witness ==
    /\ Parsed /\ handled.kind = "StatsReply"
    /\ handled.datagram.flags = 4
    /\ stats_reply_flags(handled.datagram) = 4

\* C22: stats responder.  Every STATS_REQ a node receives, source or
\* receiver, results in exactly one STATS_REPLY sent to the requesting peer;
\* a STATS_REPLY received by either node is ignored.
C22_StatsResponder ==
    Parsed =>
        /\ handled.kind = "StatsRequest" =>
              /\ Len(handled.sent) = 1
              /\ handled.sent[1].to = handled.peer
              /\ handled.sent[1].datagram.magic = "STATS_REPLY"
              /\ parse(handled.sent[1].datagram) = "StatsReply"
        /\ handled.kind = "StatsReply" => handled.sent = <<>>

\* the part of C22 about the source: its reply goes to the requesting peer
\* and carries the stream role flag and the source's session ID
SourceStatsResponder ==
    handled.op = "source_run" =>
        /\ handled.kind = "StatsRequest" =>
              /\ handled.sent = <<[to |-> handled.peer,
                                   datagram |-> SourceStatsReply(handled.node)]>>
              /\ handled.sent[1].datagram.flags = STATS_IS_STREAM
              /\ handled.sent[1].datagram.sid = handled.node
              /\ parse(handled.sent[1].datagram) = "StatsReply"
        /\ handled.kind = "StatsReply" => handled.sent = <<>>

(***************************************************************************)
(* The receiver statistics block under every sequence of calls.            *)
(***************************************************************************)
InitStats == RateInit /\ SessionInit /\ BufferInit /\ AuxInit

NextStats ==
    \/ \E r \in StatFrames, p \in StatFrames : call_set_audio_latency(r, p)
    \/ \E l \in StatFrames : call_set_buffer_length(l)
    \/ \E l \in StatMicros : call_set_network_latency(l)
    \/ \E d \in StatMicros : call_set_predict_offset(d)
    \/ \E st \in {"Seek", "Sync", "Slew", "Miss"} : call_set_stream(st)
    \/ call_clear

SpecStats == InitStats /\ [][NextStats]_vars

\* C23: stats present bits.  For each of the four fields the getter returns
\* Some(value of the last set) if and only if the field was set since the
\* creation or the last clear; a setter leaves the other three getters as they
\* were; after clear all four are absent and the stream status is Seek; the
\* zeroed block reports every field absent and no stream status.
C23_PresentBits ==
    /\ \A f \in StatFlags : getter(stats, f) = since[f]
    /\ stats_op.op = "set" =>
          \A g \in StatFlags \ {stats_op.flag} :
              getter(stats, g) = getter(stats_op.before, g)
    /\ stats_op.op = "clear" =>
          /\ \A f \in StatFlags : getter(stats, f) = None
          /\ stream(stats) = Some("Seek")
    /\ stats_op.op = "new" =>
          /\ \A f \in StatFlags : getter(stats, f) = None
          /\ stream(stats) = None

\* a field set, cleared and set again to another value next to a field that
\* was set before the clear only
C23_Witness ==
    /\ stats_op.op = "set" /\ stats_op.flag = HAS_PREDICT_OFFSET
    /\ stats_op.before.flags = {}
    /\ stats_op.before.predict_offset = Seconds(7)
    /\ stats_op.before.buffer_length = Seconds(2000)
    /\ predict_offset(stats) = Some(Seconds(-3))
    /\ buffer_length(stats) = None

(***************************************************************************)
(* The receiver's threads once it is signalled to quit.                    *)
(***************************************************************************)
InitCancel == RateInit /\ SessionInit /\ BufferInit /\ AuxInit

NextCancel ==
    \/ signal_quit
    \/ session_loop
    \/ receive_error
    \/ \E d \in TimeDatagrams, peer \in Peers, t \in Nows : receive_run(d, peer, t)

\* both threads keep running: the session thread keeps coming back to the top
\* of its loop, the network thread keeps receiving datagrams for as long as
\* its socket works
SpecCancel ==
    /\ InitCancel /\ [][NextCancel]_vars
    /\ WF_vars(session_loop)
    /\ WF_vars(\E d \in TimeDatagrams, peer \in Peers, t \in Nows : receive_run(d, peer, t))

\* C24: cancellation.  Once the quit flag is set, the network thread and the
\* session thread both eventually observe it and exit.
C24_Cancellation ==
    quit ~> (session_thread = "exited" /\ net_thread = "exited")

\* the part of C24 that the session thread obeys ...
SessionThreadExits == quit ~> (session_thread = "exited")

\* ... and what the network thread does instead: it leaves its loop on an
\* error of recv_from only, whatever the flag
NetworkThreadIgnoresQuit ==
    [][net_thread' # net_thread => (<<quit, handled>>' = <<quit, handled>>)]_vars

(***************************************************************************)
(* The encoder under every sequence of writes.                             *)
(***************************************************************************)
InitEncode == RateInit /\ SessionInit /\ BufferInit /\ AuxInit

NextEncode ==
    \E d \in EncodeData, pts \in IoPts, now \in Nows : encoder_write(d, pts, now)

SpecEncode == InitEncode /\ [][NextEncode]_vars

\* the k-th complete run of FRAMES_PER_PACKET frames of the input
Run(k) == SubSeq(input, (k - 1) * FRAMES_PER_PACKET + 1, k * FRAMES_PER_PACKET)

\* C25: source packetisation.  One audio packet was broadcast for each
\* complete run of F frames written so far; the k-th packet carries the
\* sequence number k, the session ID of the source and the k-th run of F
\* frames; only the incomplete tail is held back.
C25_Packetisation ==
    /\ Len(broadcast) = Len(input) \div FRAMES_PER_PACKET
    /\ \A k \in 1..Len(broadcast) :
          /\ broadcast[k].seq = k
          /\ broadcast[k].sid = ENCODER_SID
          /\ broadcast[k].frames = Run(k)
    /\ (IF enc_packet = None THEN <<>> ELSE Unwrap(enc_packet).frames)
          = SubSeq(input, Len(broadcast) * FRAMES_PER_PACKET + 1, Len(input))

\* what the encoder does instead: the first write of any frames panics
\* before anything is broadcast
WritePanicsBeforeBroadcast ==
    input # <<>> => (enc_panicked /\ broadcast = <<>>)

\* C26: a time packet is as long as an audio packet.  Every TIME packet a
\* node sends, the broadcast the source allocates and the replies that
\* reuse the buffer of the packet received, has the total length of an
\* audio packet: header + AudioHeader + F*C*4 bytes.
C26_TimeLengthIsAudioLength ==
    handled.op # "init" =>
        \A i \in 1..Len(handled.sent) :
            handled.sent[i].datagram.magic = "TIME" =>
                handled.sent[i].datagram.len
                    = HEADER_SIZE + AUDIO_HEADER_SIZE
                        + FRAMES_PER_PACKET * CHANNELS * SAMPLE_BYTES

\* the receiver answers a broadcast whose datagram was longer than an audio
\* packet
C26_Witness ==
    /\ handled.op = "receive_run"
    /\ handled.wire.len > HEADER_SIZE + AUDIO_LENGTH
    /\ Len(handled.sent) = 1
    /\ handled.sent[1].datagram.magic = "TIME"
    /\ handled.sent[1].datagram.len = HEADER_SIZE + AUDIO_LENGTH

\* the slot of the queue q that holds seq
Slot(q, seq) == q[CHOOSE i \in 1..Len(q) : q[i].seq = seq]

\* C27: push with holes.  A packet of the session's stream with sequence s
\* above the back S of a non-empty queue appends holes (no audio, no PTS,
\* nothing consumed) for exactly S+1 .. s-1 and then the entry for s, which
\* holds the packet's audio; on an empty queue it creates exactly one entry,
\* for s, holding the audio; the entries the queue had are left as they were.
C27_PushWithHoles ==
    [][(last'.op = "send_packet" /\ last'.packet.sid = sid) =>
          LET s == last'.packet.seq
              n == Len(queue)
          IN  /\ queue = <<>> =>
                    /\ ~panicked'
                    /\ Len(queue') = 1
                    /\ queue'[1].seq = s /\ queue'[1].audio = Some(s)
                    /\ queue'[1].consumed = 0
              /\ (queue # <<>> /\ s > queue[n].seq) =>
                    LET S == queue[n].seq
                    IN  /\ ~panicked'
                        /\ Len(queue') = n + (s - S)
                        /\ \A i \in 1..n : queue'[i] = queue[i]
                        /\ \A k \in 1..(s - S - 1) :
                               queue'[n + k] = [seq |-> S + k, pts |-> None,
                                                consumed |-> 0, audio |-> None]
                        /\ queue'[n + (s - S)].seq = s
                        /\ queue'[n + (s - S)].audio = Some(s)
                        /\ queue'[n + (s - S)].consumed = 0]_vars

\* packet 4 pushed on a queue whose back was 1: holes for 2 and 3, then 4
C27_Witness ==
    /\ last.op = "send_packet" /\ ~panicked
    /\ last.ends = Some(<<1, 1>>) /\ last.packet.seq = 4
    /\ Len(queue) = 4
    /\ queue[1].audio = Some(1)
    /\ queue[2].audio = None /\ queue[3].audio = None
    /\ queue[4].audio = Some(4)

\* C28: PTS rebasing on push.  The PTS stored in the slot a push fills is
\* the packet's PTS minus the median clock offset at the time of the push,
\* and None when no offset was observed yet; observing an offset later
\* leaves the slots of the queue as they are.
C28_PtsRebasedOnPush ==
    [][/\ (last'.op = "send_packet" /\ ~panicked') =>
             Slot(queue', last'.packet.seq).pts =
                 IF clock_delta.count = 0 THEN None
                 ELSE Some(from_micros_lossy(last'.packet.pts)
                             - from_clock_delta_lossy(Unwrap(median(clock_delta))))
       /\ last'.op = "observe" => queue' = queue]_vars

\* a slot filled before any offset was observed keeps no PTS next to a slot
\* filled after, whose PTS is the packet's moved by the offset
C28_Witness ==
    /\ last.op = "send_packet" /\ ~panicked
    /\ clock_delta.count > 0
    /\ Len(queue) >= 2
    /\ queue[1].audio # None /\ queue[1].pts = None
    /\ Slot(queue, last.packet.seq).pts # None
    /\ Slot(queue, last.packet.seq).pts # Some(from_micros_lossy(last.packet.pts))

\* the seek loop met a front without PTS
SeekingWithoutPts ==
    /\ last.op = "run_session" /\ ~last.sync
    /\ last.head # None /\ Unwrap(last.head).pts = None

\* C29: head without PTS.  While seeking, a front without PTS is popped, the
\* whole output slice is zeroes, no later entry is consumed, and the stream
\* state becomes Miss.
C29_HeadWithoutPtsIsMiss ==
    SeekingWithoutPts =>
        /\ last.popped = 1
        /\ queue = <<>> \/ (queue[1].seq = HeadSeq + 1 /\ queue[1].consumed = 0)
        /\ data = [i \in 1..as_buffer_offset(last.frames) |-> ZERO]
        /\ stream_status = STATUS_MISS

\* the part of C29 the code obeys: the front is popped and the slice zeroed
HeadWithoutPtsDropped ==
    SeekingWithoutPts =>
        /\ last.popped = 1
        /\ queue = <<>> \/ (queue[1].seq = HeadSeq + 1 /\ queue[1].consumed = 0)
        /\ data = [i \in 1..as_buffer_offset(last.frames) |-> ZERO]
        /\ ~sync

RECURSIVE SpanSum(_)
SpanSum(sp) == IF sp = <<>> THEN 0 ELSE sp[1].remaining + SpanSum(Tail(sp))

\* C31: spans partition the output buffer.  Under every interleaving of
\* write and read the remaining durations of the spans add up to the samples
\* held in the buffer: a read takes from the front spans exactly what it
\* takes from the buffer.
C31_SpansPartition ==
    ~buf_panicked => as_buffer_offset(SpanSum(spans)) = Len(buffer)

\* the part of C31 the code obeys: what write places is covered by the span
\* it appends, so the spans partition the buffer until the first read
PartitionBeforeFirstRead ==
    out = <<>> => as_buffer_offset(SpanSum(spans)) = Len(buffer)

\* the PTS of the first span of sp that holds samples and has a PTS
RECURSIVE FirstWithPts(_)
FirstWithPts(sp) ==
    IF sp = <<>> THEN None
    ELSE IF sp[1].remaining # 0 /\ sp[1].timestamp # None THEN sp[1].timestamp
    ELSE FirstWithPts(Tail(sp))

\* C32: offset publication.  Each read(pts, out) publishes pts - T, where T
\* is the PTS of the first span of the buffer that has one (the PTS a span
\* holds is the one of the samples it has left); spans of silence are
\* skipped; StreamWriter::offset returns what the last read published.
C32_OffsetPublication ==
    [][rd'.op = "read" =>
          offset' = IF FirstWithPts(spans) = None THEN None
                    ELSE Some(rd'.pts - Unwrap(FirstWithPts(spans)))]_vars

\* what read publishes instead: the PTS of the front span, None when the
\* front span is silence, whatever the spans behind it
OffsetFromFrontSpan ==
    [][rd'.op = "read" =>
          offset' = IF spans = <<>> \/ spans[1].timestamp = None THEN None
                    ELSE Some(rd'.pts - Unwrap(spans[1].timestamp))]_vars

\* C33: the writer blocks only on a full buffer.  write waits on the
\* condition variable only while it has samples left to place and the buffer
\* has no room for them.
C33_WriterWaitsOnlyWhenFull ==
    writer.pc = "wait" => (writer.next # <<>> /\ Len(buffer) = buffer_size)

\* what write does instead: it waits after every turn, with or without
\* samples left
WriterWaitsAfterEveryTurn ==
    [][(rd'.op \in {"write", "write_wake"} /\ ~buf_panicked' /\ writer' # WriterIdle
          /\ (writer.pc = "idle" \/ writer.next # <<>>)) =>
          writer'.pc = "wait"]_vars

\* C34: the audio callback never waits.  Every read fills the whole output
\* slice and returns, and notifies the condition variable, so that a writer
\* waiting there is woken; the reader never stops with the writer blocked.
C34_ReadNeverWaits ==
    rd.op = "read" =>
        /\ ~buf_panicked
        /\ Len(out) = as_buffer_offset(rd.frames)
        /\ \A i \in 1..Len(out) : out[i] # STALE
        /\ writer.pc = "wait" => writer.notified

\* the part of C34 the code obeys: a read that does not panic fills the
\* whole slice and notifies
ReadFillsUnlessPanic ==
    (rd.op = "read" /\ ~buf_panicked) =>
        /\ Len(out) = as_buffer_offset(rd.frames)
        /\ \A i \in 1..Len(out) : out[i] # STALE
        /\ writer.pc = "wait" => writer.notified

\* C36: read never fails an internal check.  No read panics on
\* buffer.pop_front().unwrap(): whenever the front span reports remaining > 0
\* the buffer holds at least that many samples.
C36_ReadNeverFails ==
    /\ rd.op = "read" => ~buf_panicked
    /\ DropEmpty(spans) # <<>> =>
          Len(buffer) >= as_buffer_offset(DropEmpty(spans)[1].remaining)

(***************************************************************************)
(* The slew driver under every answer of the resampler.                    *)
(***************************************************************************)
\* the frames Slew::write is called with, and the frames the resampler
\* writes into the scratch buffer of one packet
SlewFrames == {0, 1, FRAMES_PER_PACKET}
OutputWritten == {0, 1, FRAMES_PER_PACKET}

InitSlew == RateInit /\ SessionInit /\ BufferInit /\ AuxInit

NextSlew ==
    \/ \E pts \in IoPts, n \in SlewFrames, checks \in BOOLEAN : slew_write(pts, n, checks)
    \/ \E r \in 0..FRAMES_PER_PACKET, w \in OutputWritten : slew_iteration(r, w)
    \/ slew_resample_error

SpecSlew == InitSlew /\ [][NextSlew]_vars

\* the input the first k iterations of the call read between them
RECURSIVE InputRead(_)
InputRead(k) == IF k = 0 THEN 0 ELSE sw.chunks[k].read + InputRead(k - 1)

\* C35: slew driver loop.  Every chunk a call of Slew::write hands to the
\* output is tagged with the PTS of the call plus the input the preceding
\* iterations read (not what they wrote); the loop goes on while input is
\* left, the call returns Ok only with the whole input read, and an error of
\* the resampler ends it with no output for that iteration or after it.
C35_SlewDriverLoop ==
    /\ \A k \in 1..Len(sw.chunks) : sw.chunks[k].pts = sw.pts0 + InputRead(k - 1)
    /\ sw.pc = "loop" => InputRead(Len(sw.chunks)) < sw.frames0
    /\ sw.pc = "ok" => InputRead(Len(sw.chunks)) = sw.frames0
    /\ sw.pc \in {"loop", "ok"} => Len(sw.chunks) = sw.iterations
    /\ sw.pc = "err" => Len(sw.chunks) = sw.iterations - 1

\* a call that returned Ok after two iterations, the first of which wrote
\* another number of frames than it read
C35_Witness ==
    /\ sw.pc = "ok" /\ Len(sw.chunks) = 2
    /\ sw.chunks[1].read = 1 /\ sw.chunks[1].frames = FRAMES_PER_PACKET
    /\ sw.chunks[2].pts = sw.pts0 + 1
    /\ sw.chunks[2].read = sw.frames0 - 1

====
